---- MODULE Spec2Model ----
(***************************************************************************)
(* JSPiano: the pitch mapper (MusicLogic), the notation translator         *)
(* (NoteTranslator) and the lookahead autoplay engine (AutoPlayer).        *)
(*                                                                         *)
(* Characters are one-character strings, texts and sheet lines are         *)
(* sequences of characters.  Times are integer milliseconds of the audio   *)
(* clock (the code's seconds * 1000); the tempo values used make every     *)
(* division of the code exact.                                             *)
(***************************************************************************)
EXTENDS Integers, Sequences, FiniteSets, Bags, TLC

(***************************************************************************)
(* MusicLogic: tables                                                      *)
(***************************************************************************)

\* getMidi's "return null" (no mapping); every real pitch is >= 11
null == -1

keyMap ==
  << "1", "2", "3", "4", "5", "6", "7", "8", "9", "0",
     "q", "w", "e", "r", "t", "y", "u", "i", "o", "p",
     "a", "s", "d", "f", "g", "h", "j", "k", "l",
     "z", "x", "c", "v", "b", "n", "m" >>

shiftMap ==
  "!" :> "1" @@ "@" :> "2" @@ "#" :> "3" @@ "$" :> "4" @@ "%" :> "5" @@
  "^" :> "6" @@ "&" :> "7" @@ "*" :> "8" @@ "(" :> "9" @@ ")" :> "0"

whiteNames == << "C", "D", "E", "F", "G", "A", "B" >>

whiteOffsets ==
  "C" :> 0 @@ "D" :> 2 @@ "E" :> 4 @@ "F" :> 5 @@ "G" :> 7 @@ "A" :> 9 @@ "B" :> 11

scales ==
  "C Major"  :> [notes |-> {}, sharps |-> TRUE] @@
  "C# Major" :> [notes |-> {"C", "D", "E", "F", "G", "A", "B"}, sharps |-> TRUE] @@
  "D Major"  :> [notes |-> {"F", "C"}, sharps |-> TRUE] @@
  "Db Major" :> [notes |-> {"D", "E", "G", "A", "B"}, sharps |-> FALSE] @@
  "E Major"  :> [notes |-> {"F", "G", "C", "D"}, sharps |-> TRUE] @@
  "Eb Major" :> [notes |-> {"E", "A", "B"}, sharps |-> FALSE] @@
  "F Major"  :> [notes |-> {"B"}, sharps |-> FALSE] @@
  "F# Major" :> [notes |-> {"F", "G", "A", "C", "D", "E"}, sharps |-> TRUE] @@
  "G Major"  :> [notes |-> {"F"}, sharps |-> TRUE] @@
  "Gb Major" :> [notes |-> {"G", "A", "B", "C", "D", "E"}, sharps |-> FALSE] @@
  "A Major"  :> [notes |-> {"C", "F", "G"}, sharps |-> TRUE] @@
  "Ab Major" :> [notes |-> {"A", "B", "D", "E"}, sharps |-> FALSE] @@
  "B Major"  :> [notes |-> {"C", "D", "F", "G", "A"}, sharps |-> TRUE] @@
  "Bb Major" :> [notes |-> {"B", "E"}, sharps |-> FALSE]

ScaleNames == DOMAIN scales

\* the object literal inside getMidi
specialShiftToBase ==
  "{" :> "[" @@ "}" :> "]" @@ ":" :> ";" @@ "\"" :> "'" @@
  "<" :> "," @@ ">" :> "." @@ "?" :> "/"

\* String.prototype.toLowerCase on one character
UpperToLower ==
  "A" :> "a" @@ "B" :> "b" @@ "C" :> "c" @@ "D" :> "d" @@ "E" :> "e" @@
  "F" :> "f" @@ "G" :> "g" @@ "H" :> "h" @@ "I" :> "i" @@ "J" :> "j" @@
  "K" :> "k" @@ "L" :> "l" @@ "M" :> "m" @@ "N" :> "n" @@ "O" :> "o" @@
  "P" :> "p" @@ "Q" :> "q" @@ "R" :> "r" @@ "S" :> "s" @@ "T" :> "t" @@
  "U" :> "u" @@ "V" :> "v" @@ "W" :> "w" @@ "X" :> "x" @@ "Y" :> "y" @@
  "Z" :> "z"

\* /[A-Z]/.test(c)
IsUpper(c) == c \in DOMAIN UpperToLower

toLowerCase(c) == IF IsUpper(c) THEN UpperToLower[c] ELSE c

\* the inverse of toLowerCase on letters: String.prototype.toUpperCase
toUpperCase(c) ==
  IF \E u \in DOMAIN UpperToLower : UpperToLower[u] = c
  THEN CHOOSE u \in DOMAIN UpperToLower : UpperToLower[u] = c
  ELSE c

\* F applied to the value of v; v is computed once, however often F uses it
Bind(v, F(_)) == CHOOSE r \in { F(x) : x \in { v } } : TRUE

\* the first position of seq holding the value x, 0 when there is none
firstIndex(seq, x) ==
  IF \E i \in 1..Len(seq) : seq[i] = x
  THEN CHOOSE i \in 1..Len(seq) : seq[i] = x /\ \A j \in 1..(i - 1) : seq[j] # x
  ELSE 0

\* Array.prototype.indexOf, 1-based; 0 stands for the code's -1
indexOf(seq, c) == Bind(c, LAMBDA x : firstIndex(seq, x))

\* an empty customBindings object
NoBindings == [k \in {} |-> [norm |-> "", shift |-> ""]]

(***************************************************************************)
(* MusicLogic.getMidi(input, isShift) under the bindings b and scale sc    *)
(***************************************************************************)
\* the pitch of keyboard position idx (0-based) before the scale is applied
naturalMidi(idx) == ((idx \div 7) + 1) * 12 + whiteOffsets[whiteNames[(idx % 7) + 1]]

\* scalePitch with the shift of a note outside the scale's set left out
scalePitch_ShiftIgnored(idx, targetShift, sc) ==
  LET name  == whiteNames[(idx % 7) + 1]
      midi  == naturalMidi(idx)
      scale == scales[sc]
  IN  IF name \in scale.notes
      THEN IF targetShift THEN midi
           ELSE IF scale.sharps THEN midi + 1 ELSE midi - 1
      ELSE midi

\* scalePitch with every scale treated as a sharps scale
scalePitch_AlwaysSharp(idx, targetShift, sc) ==
  LET name  == whiteNames[(idx % 7) + 1]
      midi  == naturalMidi(idx)
      scale == scales[sc]
  IN  IF name \in scale.notes
      THEN IF targetShift THEN midi ELSE midi + 1
      ELSE IF targetShift THEN midi + 1 ELSE midi

\* lines 86-93: name, natural pitch, scale alteration and shift
scalePitch(idx, targetShift, sc) ==
  LET name  == whiteNames[(idx % 7) + 1]
      midi  == naturalMidi(idx)
      scale == scales[sc]
  IN  IF name \in scale.notes
      THEN IF targetShift THEN midi
           ELSE IF scale.sharps THEN midi + 1 ELSE midi - 1
      ELSE IF targetShift THEN midi + 1 ELSE midi

\* getMidi with the shift left as the caller and the typed character give it,
\* whatever the replacement of a binding is
getMidi_ShiftFromCaller(input, isShift, b, sc) ==
  LET isCharShifted == input \in DOMAIN specialShiftToBase
      lookupKey     == IF isCharShifted THEN specialShiftToBase[input] ELSE input
      hasBinding    == lookupKey \in DOMAIN b
      mapping       == IF ~hasBinding THEN ""
                       ELSE IF isShift \/ isCharShifted THEN b[lookupKey].shift
                            ELSE b[lookupKey].norm
      targetKey     == IF mapping # "" THEN toLowerCase(mapping) ELSE input
      targetShift   == isShift \/ isCharShifted
      char          == IF targetKey \in DOMAIN shiftMap THEN shiftMap[targetKey]
                       ELSE toLowerCase(targetKey)
      idx           == indexOf(keyMap, char)
  IN  IF idx = 0 THEN null ELSE scalePitch(idx - 1, targetShift, sc)

\* MusicLogic.getMidi under the binding table b and the scale sc
getMidi(input, isShift, b, sc) ==
  LET isCharShifted == input \in DOMAIN specialShiftToBase
      lookupKey     == IF isCharShifted THEN specialShiftToBase[input] ELSE input
      hasBinding    == lookupKey \in DOMAIN b
      mapping       == IF ~hasBinding THEN ""
                       ELSE IF isShift \/ isCharShifted THEN b[lookupKey].shift
                            ELSE b[lookupKey].norm
      targetKey     == IF mapping # "" THEN toLowerCase(mapping) ELSE input
      targetShift   == IF mapping # ""
                       THEN IsUpper(mapping) \/ mapping \in DOMAIN shiftMap
                       ELSE isShift \/ isCharShifted
      char          == IF targetKey \in DOMAIN shiftMap THEN shiftMap[targetKey]
                       ELSE toLowerCase(targetKey)
      idx           == indexOf(keyMap, char)
  IN  IF idx = 0 THEN null ELSE scalePitch(idx - 1, targetShift, sc)

\* midiToName that names an altered pitch by the natural note below it
midiToName_Natural(m) ==
  << <<"C">>, <<"C">>, <<"D">>, <<"D">>, <<"E">>, <<"F">>, <<"F">>,
     <<"G">>, <<"G">>, <<"A">>, <<"A">>, <<"B">> >>[(m % 12) + 1]

\* MusicLogic.midiToName; the name is given as its characters
midiToName(m) ==
  << <<"C">>, <<"C", "#">>, <<"D">>, <<"D", "#">>, <<"E">>, <<"F">>, <<"F", "#">>,
     <<"G">>, <<"G", "#">>, <<"A">>, <<"A", "#">>, <<"B">> >>[(m % 12) + 1]

(***************************************************************************)
(* NoteTranslator                                                          *)
(***************************************************************************)
Digits == << "0", "1", "2", "3", "4", "5", "6", "7", "8", "9" >>

IsDigit(c) == indexOf(Digits, c) # 0

\* the decimal digits of n >= 0, as a template literal prints them
RECURSIVE digitChars(_)
digitChars(n) ==
  IF n < 10 THEN << Digits[n + 1] >>
  ELSE digitChars(n \div 10) \o << Digits[(n % 10) + 1] >>

\* `${n}` for an integer n
numberChars(n) == IF n < 0 THEN << "-" >> \o digitChars(0 - n) ELSE digitChars(n)

\* parseInt(s, 10) of a run of digits
RECURSIVE digitsValue(_)
digitsValue(s) ==
  IF Len(s) = 0 THEN 0
  ELSE digitsValue(SubSeq(s, 1, Len(s) - 1)) * 10 + (indexOf(Digits, s[Len(s)]) - 1)

lowerAll(s) == [i \in 1..Len(s) |-> toLowerCase(s[i])]

\* String.prototype.split("\n")
RECURSIVE splitLines(_)
splitLines(t) ==
  LET i == indexOf(t, "\n")
  IN  IF i = 0 THEN << t >>
      ELSE << SubSeq(t, 1, i - 1) >> \o splitLines(SubSeq(t, i + 1, Len(t)))

\* Array.prototype.join("\n")
RECURSIVE joinLines(_)
joinLines(ls) ==
  IF Len(ls) = 0 THEN << >>
  ELSE IF Len(ls) = 1 THEN ls[1]
  ELSE ls[1] \o << "\n" >> \o joinLines(Tail(ls))

\* String.prototype.trim (the only white space of a sheet line is the space)
RECURSIVE trimStart(_)
trimStart(s) == IF Len(s) > 0 /\ s[1] = " " THEN trimStart(Tail(s)) ELSE s

RECURSIVE trimEnd(_)
trimEnd(s) ==
  IF Len(s) > 0 /\ s[Len(s)] = " " THEN trimEnd(SubSeq(s, 1, Len(s) - 1)) ELSE s

trim(s) == trimEnd(trimStart(s))

\* line.trim().startsWith("-")
\* the comment test applied to the line as written, leading blanks not removed
isCommentLine_Untrimmed(line) == Len(line) > 0 /\ line[1] = "-"

isCommentLine(line) == LET t == trim(line) IN Len(t) > 0 /\ t[1] = "-"

\* the syntax characters translateLineKeysToNotes passes through
SyntaxChars == { " ", "[", "]", "{", "}", ".", "~", "|", "(", ")" }

\* one iteration of translateLineKeysToNotes' loop: the text appended for char
translateChar(char, b, sc) ==
  IF char \in SyntaxChars THEN << char >>
  ELSE LET isShift == IsUpper(char) \/ char \in DOMAIN shiftMap
           key     == IF IsUpper(char) THEN toLowerCase(char)
                      ELSE IF char \in DOMAIN shiftMap THEN shiftMap[char]
                      ELSE char
           midi    == getMidi(key, isShift, b, sc)
       IN  IF midi # null
           THEN << "<" >> \o lowerAll(midiToName(midi))
                \o numberChars((midi \div 12) - 1) \o << ">" >>
           ELSE << char >>

RECURSIVE translateLineKeysToNotes(_, _, _)
translateLineKeysToNotes(line, b, sc) ==
  IF Len(line) = 0 THEN << >>
  ELSE translateChar(line[1], b, sc) \o translateLineKeysToNotes(Tail(line), b, sc)

keysToNotes(sheetString, b, sc) ==
  IF Len(sheetString) = 0 THEN << >>
  ELSE LET lines == splitLines(sheetString)
       IN  joinLines([i \in 1..Len(lines) |->
                        IF isCommentLine(lines[i]) THEN lines[i]
                        ELSE translateLineKeysToNotes(lines[i], b, sc)])

\* the offsets table of getMidiFromNoteName
noteOffsets ==
  <<"c">> :> 0 @@ <<"c", "#">> :> 1 @@ <<"d">> :> 2 @@ <<"d", "#">> :> 3 @@
  <<"e">> :> 4 @@ <<"f">> :> 5 @@ <<"f", "#">> :> 6 @@ <<"g">> :> 7 @@
  <<"g", "#">> :> 8 @@ <<"a">> :> 9 @@ <<"a", "#">> :> 10 @@ <<"b">> :> 11

\* getMidiFromNoteName with the octave taken as written, one octave low
getMidiFromNoteName_OctaveLow(noteName, octave) ==
  LET n == lowerAll(noteName)
  IN  IF n \notin DOMAIN noteOffsets THEN null
      ELSE octave * 12 + noteOffsets[n]

getMidiFromNoteName(noteName, octave) ==
  LET n == lowerAll(noteName)
  IN  IF n \notin DOMAIN noteOffsets THEN null
      ELSE (octave + 1) * 12 + noteOffsets[n]

\* the key character of a shifted key: its shift symbol, else its upper case
shiftedKeyChar(char) ==
  IF \E k \in DOMAIN shiftMap : shiftMap[k] = char
  THEN CHOOSE k \in DOMAIN shiftMap : shiftMap[k] = char
  ELSE toUpperCase(char)

\* findKeyForMidi with the two searches in the other order
findKeyForMidi_ShiftedFirst(targetMidi, b, sc) ==
  LET normal  == { i \in 1..Len(keyMap) : getMidi(keyMap[i], FALSE, b, sc) = targetMidi }
      shifted == { i \in 1..Len(keyMap) : getMidi(keyMap[i], TRUE, b, sc) = targetMidi }
      first(S) == CHOOSE i \in S : \A j \in S : i <= j
  IN  IF shifted # {} THEN << shiftedKeyChar(keyMap[first(shifted)]) >>
      ELSE IF normal # {} THEN << keyMap[first(normal)] >>
      ELSE << >>

\* findKeyForMidi; << >> stands for the code's null
findKeyForMidi(targetMidi, b, sc) ==
  LET normal  == { i \in 1..Len(keyMap) : getMidi(keyMap[i], FALSE, b, sc) = targetMidi }
      shifted == { i \in 1..Len(keyMap) : getMidi(keyMap[i], TRUE, b, sc) = targetMidi }
      first(S) == CHOOSE i \in S : \A j \in S : i <= j
  IN  IF normal # {} THEN << keyMap[first(normal)] >>
      ELSE IF shifted # {} THEN << shiftedKeyChar(keyMap[first(shifted)]) >>
      ELSE << >>

\* the number of digits of t from position j on
RECURSIVE digitRun(_, _)
digitRun(t, j) == IF j <= Len(t) /\ IsDigit(t[j]) THEN 1 + digitRun(t, j + 1) ELSE 0

\* one match of /<([a-g][#]?)(-?\d+)>/i starting at position i of t:
\* its length (0: no match here), the note group and the parsed octave group
noteMatchAt(t, i) ==
  LET at(j)   == IF j <= Len(t) THEN t[j] ELSE ""
      letter  == toLowerCase(at(i + 1)) \in { "a", "b", "c", "d", "e", "f", "g" }
      sharp   == IF at(i + 2) = "#" THEN 1 ELSE 0
      minus   == IF at(i + 2 + sharp) = "-" THEN 1 ELSE 0
      dstart  == i + 2 + sharp + minus
      nd      == digitRun(t, dstart)
      ok      == at(i) = "<" /\ letter /\ nd > 0 /\ at(dstart + nd) = ">"
      value   == digitsValue(SubSeq(t, dstart, dstart + nd - 1))
  IN  IF ok
      THEN [len |-> dstart + nd - i + 1,
            note |-> SubSeq(t, i + 1, i + 1 + sharp),
            oct |-> IF minus = 1 THEN 0 - value ELSE value]
      ELSE [len |-> 0, note |-> << >>, oct |-> 0]

\* the replacement callback of notesToKeys for one match
noteReplacement(match, note, oct, b, sc) ==
  LET midi     == getMidiFromNoteName(note, oct)
      keyCombo == IF midi = null THEN << >> ELSE findKeyForMidi(midi, b, sc)
  IN  IF keyCombo = << >> THEN match ELSE keyCombo

\* String.prototype.replace with the global regular expression, from position i
RECURSIVE replaceFrom(_, _, _, _)
replaceFrom(t, i, b, sc) ==
  IF i > Len(t) THEN << >>
  ELSE LET m == noteMatchAt(t, i)
       IN  IF m.len > 0
           THEN noteReplacement(SubSeq(t, i, i + m.len - 1), m.note, m.oct, b, sc)
                \o replaceFrom(t, i + m.len, b, sc)
           ELSE << t[i] >> \o replaceFrom(t, i + 1, b, sc)

notesToKeys(sheetString, b, sc) ==
  IF Len(sheetString) = 0 THEN << >> ELSE replaceFrom(sheetString, 1, b, sc)

(***************************************************************************)
(* State                                                                   *)
(***************************************************************************)
VARIABLES
  currentScale,        \* MusicLogic.currentScale
  customBindings,      \* MusicLogic.customBindings
  call,                \* the pure function last applied, with its arguments
  ret,                 \* what it returned
  clock,               \* AudioContext.currentTime, in ms
  songData,            \* AutoPlayer.songData: the loaded song's name, or "null"
  rawLines,            \* AutoPlayer.rawLines
  baseBPM,             \* AutoPlayer.baseBPM
  tempoScale,          \* AutoPlayer.tempoScale, as the percentage it was set from
  isPlaying,           \* AutoPlayer.isPlaying
  nextNoteTime,        \* AutoPlayer.nextNoteTime, in ms
  currentLineIdx,      \* AutoPlayer.currentLineIdx (0-based)
  charIdx,             \* AutoPlayer.charIdx (0-based)
  schedulingFinished,  \* AutoPlayer.schedulingFinished
  visualQueue,         \* AutoPlayer.visualQueue
  timers,              \* the pending setTimeout callbacks of scheduler()
  frames,              \* the pending requestAnimationFrame callbacks of draw()
  pc,                  \* the position inside a running seek() or play() call
  seekLocals,          \* lineIndex and wasPlaying of the running seek() call
  audioLog,            \* the calls audio.play(midi, time), in dispatch order
  visualLog,           \* the events handed to callbacks.onVisualEvent, in order
  onStopCount,         \* the number of calls of callbacks.onStop
  run,                 \* bookkeeping of the playback started by the last play()
  ops,                 \* the number of playback-control calls made so far
  ctx,                 \* AudioEngine.ctx: "null" or the AudioContext
  samples,             \* AudioEngine.samples: the entries of the Map
  loads,               \* the preload() calls waiting for fetch / decodeAudioData
  sources,             \* the buffer sources started, with their start times
  warnings,            \* the loads console.warn reported as missing
  requested            \* the calls of AudioEngine.play and preload made so far

logicVars == << currentScale, customBindings >>

callVars == << call, ret >>

playerVars ==
  << clock, songData, rawLines, baseBPM, tempoScale, isPlaying, nextNoteTime,
     currentLineIdx, charIdx, schedulingFinished, visualQueue, timers, frames,
     pc, seekLocals, audioLog, visualLog, onStopCount, run, ops >>

engineVars == << ctx, samples, loads, sources, warnings, requested >>

vars == << logicVars, callVars, playerVars, engineVars >>

(***************************************************************************)
(* AutoPlayer: constants of the constructor and of the code                *)
(***************************************************************************)
\* play(): nextNoteTime = currentTime + 0.05
SchedLatency == 50

\* this.scheduleAheadTime = 0.1
scheduleAheadTime == 100

\* scheduleNextToken: the stop_command is queued at nextNoteTime + 1
StopDelay == 1000

(***************************************************************************)
(* AutoPlayer: the tokenizer                                               *)
(***************************************************************************)
\* a search that finds the last position holding c instead of the first
indexOfFrom_Last(line, c, from) ==
  IF \E i \in from..(Len(line) - 1) : line[i + 1] = c
  THEN CHOOSE i \in from..(Len(line) - 1) :
         line[i + 1] = c /\ \A j \in (i + 1)..(Len(line) - 1) : line[j + 1] # c
  ELSE -1

\* String.prototype.indexOf(c, from) on 0-based positions; -1 when absent
indexOfFrom(line, c, from) ==
  IF \E i \in from..(Len(line) - 1) : line[i + 1] = c
  THEN CHOOSE i \in from..(Len(line) - 1) :
         line[i + 1] = c /\ \A j \in from..(i - 1) : line[j + 1] # c
  ELSE -1

\* String.prototype.substring(from, to) on 0-based positions
substring(line, from, to) == SubSeq(line, from + 1, to)

\* a tokenizer that takes nothing, not even the opening character, where an
\* opening character has no closing one
RECURSIVE getNextToken_OpenStays(_, _)
getNextToken_OpenStays(line, startIndex) ==
  LET char == IF startIndex < Len(line) THEN line[startIndex + 1] ELSE "undefined"
      end  == indexOfFrom(line, IF char = "[" THEN "]" ELSE "}", startIndex)
  IN  IF char \in { "[", "{" }
      THEN IF end = -1
           THEN [text |-> << >>, nextIndex |-> startIndex,
                 isRest |-> FALSE, isGrace |-> FALSE]
           ELSE [text |-> substring(line, startIndex + 1, end), nextIndex |-> end + 1,
                 isRest |-> FALSE, isGrace |-> char = "{"]
      ELSE IF char = "."
      THEN [text |-> << "." >>, nextIndex |-> startIndex + 1,
            isRest |-> TRUE, isGrace |-> FALSE]
      ELSE IF char = " "
      THEN getNextToken_OpenStays(line, startIndex + 1)
      ELSE [text |-> IF char = "undefined" THEN << >> ELSE << char >>,
            nextIndex |-> startIndex + 1, isRest |-> FALSE, isGrace |-> FALSE]

\* a tokenizer that lets an opening character without its closing one take the
\* rest of the line
RECURSIVE getNextToken_OpenTakesRest(_, _)
getNextToken_OpenTakesRest(line, startIndex) ==
  LET char == IF startIndex < Len(line) THEN line[startIndex + 1] ELSE "undefined"
      end  == indexOfFrom(line, IF char = "[" THEN "]" ELSE "}", startIndex)
  IN  IF char \in { "[", "{" }
      THEN IF end = -1
           THEN [text |-> << >>, nextIndex |-> Len(line),
                 isRest |-> FALSE, isGrace |-> FALSE]
           ELSE [text |-> substring(line, startIndex + 1, end), nextIndex |-> end + 1,
                 isRest |-> FALSE, isGrace |-> char = "{"]
      ELSE IF char = "."
      THEN [text |-> << "." >>, nextIndex |-> startIndex + 1,
            isRest |-> TRUE, isGrace |-> FALSE]
      ELSE IF char = " "
      THEN getNextToken_OpenTakesRest(line, startIndex + 1)
      ELSE [text |-> IF char = "undefined" THEN << >> ELSE << char >>,
            nextIndex |-> startIndex + 1, isRest |-> FALSE, isGrace |-> FALSE]

\* getNextToken(line, startIndex); a missing isRest / isGrace reads as FALSE and
\* the text of a token read past the end of the line (undefined) as << >>
RECURSIVE getNextToken(_, _)
getNextToken(line, startIndex) ==
  LET char == IF startIndex < Len(line) THEN line[startIndex + 1] ELSE "undefined"
  IN  IF char = "["
      THEN LET end == indexOfFrom(line, "]", startIndex)
           IN  IF end = -1
               THEN [text |-> << >>, nextIndex |-> startIndex + 1,
                     isRest |-> FALSE, isGrace |-> FALSE]
               ELSE [text |-> substring(line, startIndex + 1, end), nextIndex |-> end + 1,
                     isRest |-> FALSE, isGrace |-> FALSE]
      ELSE IF char = "{"
      THEN LET end == indexOfFrom(line, "}", startIndex)
           IN  IF end = -1
               THEN [text |-> << >>, nextIndex |-> startIndex + 1,
                     isRest |-> FALSE, isGrace |-> FALSE]
               ELSE [text |-> substring(line, startIndex + 1, end), nextIndex |-> end + 1,
                     isRest |-> FALSE, isGrace |-> TRUE]
      ELSE IF char = "."
      THEN [text |-> << "." >>, nextIndex |-> startIndex + 1,
            isRest |-> TRUE, isGrace |-> FALSE]
      ELSE IF char = " "
      THEN getNextToken(line, startIndex + 1)
      ELSE [text |-> IF char = "undefined" THEN << >> ELSE << char >>,
            nextIndex |-> startIndex + 1, isRest |-> FALSE, isGrace |-> FALSE]

\* scheduleNote's first loop: the playable units of a token's text, from 0-based i
RECURSIVE noteUnits(_, _)
noteUnits(text, i) ==
  IF i >= Len(text) THEN << >>
  ELSE LET end == IF text[i + 1] = "[" THEN indexOfFrom(text, "]", i) ELSE -1
       IN  IF end > -1
           THEN << substring(text, i + 1, end) >> \o noteUnits(text, end + 1)
           ELSE << << text[i + 1] >> >> \o noteUnits(text, i + 1)

(***************************************************************************)
(* AutoPlayer: the methods, as functions of the player's mutable fields p  *)
(***************************************************************************)
\* the mutable fields of the player and of its sinks, as one record
Player ==
  [isPlaying |-> isPlaying, nextNoteTime |-> nextNoteTime,
   currentLineIdx |-> currentLineIdx, charIdx |-> charIdx,
   schedulingFinished |-> schedulingFinished, visualQueue |-> visualQueue,
   timers |-> timers, frames |-> frames, audioLog |-> audioLog,
   visualLog |-> visualLog, onStopCount |-> onStopCount]

\* a visual event; the fields an event object lacks read -1 / FALSE
Event(kind, time, lineIdx, midi, isRest) ==
  [kind |-> kind, time |-> time, lineIdx |-> lineIdx, midi |-> midi, isRest |-> isRest]

queueVisual(p, data) == [p EXCEPT !.visualQueue = Append(@, data)]

\* window.setTimeout / requestAnimationFrame: the new callback's id replaces the
\* one held; a callback still pending under the old id stays pending, unheld
arm(h) ==
  [held |-> TRUE, orphans |-> IF h.held THEN h.orphans + 1 ELSE h.orphans]

\* window.clearTimeout / cancelAnimationFrame of the id held
cancel(h) == [h EXCEPT !.held = FALSE]

\* reset() that leaves the visual queue as it is
reset_KeepsQueue(p) ==
  [p EXCEPT !.currentLineIdx = 0, !.charIdx = 0, !.schedulingFinished = FALSE]

reset(p) ==
  [p EXCEPT !.currentLineIdx = 0, !.charIdx = 0, !.visualQueue = << >>,
            !.schedulingFinished = FALSE]

\* pause() that also drops the queued visual events
pause_ClearsQueue(p) ==
  [p EXCEPT !.isPlaying = FALSE, !.timers = cancel(@), !.frames = cancel(@),
            !.visualQueue = << >>]

pause(p) ==
  [p EXCEPT !.isPlaying = FALSE, !.timers = cancel(@), !.frames = cancel(@)]

stop(p) ==
  [reset(pause(p)) EXCEPT !.onStopCount = @ + 1]

\* fireSound that queues a flash for a character getMidi gives no pitch for
RECURSIVE fireSound_FlashesUnresolved(_, _, _, _)
fireSound_FlashesUnresolved(p, charString, i, time) ==
  IF i > Len(charString) THEN p
  ELSE LET char  == charString[i]
           shift == IsUpper(char) \/ char \in DOMAIN shiftMap
           key   == IF char \in DOMAIN shiftMap THEN shiftMap[char]
                    ELSE IF IsUpper(char) THEN toLowerCase(char)
                    ELSE char
           midi  == getMidi(key, shift, customBindings, currentScale)
           q     == IF midi # null
                    THEN queueVisual(
                           [p EXCEPT !.audioLog = Append(@, [midi |-> midi, time |-> time])],
                           Event("flash", time, -1, midi, FALSE))
                    ELSE queueVisual(p, Event("flash", time, -1, midi, FALSE))
       IN  Bind(q, LAMBDA r : fireSound_FlashesUnresolved(r, charString, i + 1, time))

\* fireSound(charString, time), from the character at 1-based position i on
RECURSIVE fireSound(_, _, _, _)
fireSound(p, charString, i, time) ==
  IF i > Len(charString) THEN p
  ELSE Bind(charString[i], LAMBDA char :
         LET shift == IsUpper(char) \/ char \in DOMAIN shiftMap
             key   == IF char \in DOMAIN shiftMap THEN shiftMap[char]
                      ELSE IF IsUpper(char) THEN toLowerCase(char)
                      ELSE char
         IN  Bind(getMidi(key, shift, customBindings, currentScale), LAMBDA midi :
               LET q == IF midi # null
                        THEN queueVisual(
                               [p EXCEPT !.audioLog =
                                  Append(@, [midi |-> midi, time |-> time])],
                               Event("flash", time, -1, midi, FALSE))
                        ELSE p
               IN  Bind(q, LAMBDA r : fireSound(r, charString, i + 1, time))))

\* notes.forEach of scheduleNote, from the unit at 1-based position idx on;
\* stepTime is 0 for a token that is not a grace run
RECURSIVE fireUnits(_, _, _, _, _)
fireUnits(p, notes, idx, startTime, stepTime) ==
  IF idx > Len(notes) THEN p
  ELSE Bind(notes[idx], LAMBDA n :
         Bind(fireSound(p, n, 1, startTime + (idx - 1) * stepTime),
              LAMBDA q : fireUnits(q, notes, idx + 1, startTime, stepTime)))

\* scheduleNote that fires the units of a grace run all at the start time
scheduleNote_GraceAtOnce(p, text, startTime, durationSec, isGrace) ==
  IF text = << >> \/ text = << "." >> THEN p
  ELSE fireUnits(p, noteUnits(text, 0), 1, startTime, 0)

scheduleNote(p, text, startTime, durationSec, isGrace) ==
  IF text = << >> \/ text = << "." >> THEN p
  ELSE Bind(noteUnits(text, 0), LAMBDA notes :
         IF isGrace
         THEN fireUnits(p, notes, 1, startTime,
                        durationSec \div (IF Len(notes) = 0 THEN 1 ELSE Len(notes)))
         ELSE fireUnits(p, notes, 1, startTime, 0))

\* the beat length taken from the song's tempo alone, the tempo factor ignored
secondsPerBeat_IgnoresTempo == 60000 \div baseBPM

\* 60 / baseBPM / tempoScale seconds, in ms
secondsPerBeat == (60000 * 100) \div (baseBPM * tempoScale)

\* scheduleNextToken that times a token from the clock of the tick it runs in
scheduleNextToken_FromClock(p) ==
  IF p.schedulingFinished THEN p
  ELSE IF p.currentLineIdx >= Len(rawLines)
  THEN queueVisual([p EXCEPT !.schedulingFinished = TRUE],
                   Event("stop", p.nextNoteTime + StopDelay, -1, -1, FALSE))
  ELSE LET line    == rawLines[p.currentLineIdx + 1]
           trimmed == trim(line)
           start   == clock + SchedLatency
       IN  IF trimmed = << >> \/ trimmed = << "~" >> \/ isCommentLine(line)
           THEN [queueVisual(p, Event("skip", start, p.currentLineIdx, -1, FALSE))
                   EXCEPT !.currentLineIdx = @ + 1, !.charIdx = 0]
           ELSE IF p.charIdx >= Len(line)
           THEN [p EXCEPT !.currentLineIdx = @ + 1, !.charIdx = 0]
           ELSE LET token == getNextToken(line, p.charIdx)
                    p1    == [p EXCEPT !.charIdx = token.nextIndex]
                    p2    == IF ~token.isRest
                             THEN scheduleNote(p1, token.text, start,
                                               secondsPerBeat, token.isGrace)
                             ELSE p1
                IN  Bind(p2, LAMBDA q :
                      [queueVisual(q, Event("line", start, q.currentLineIdx,
                                            -1, token.isRest))
                         EXCEPT !.nextNoteTime = @ + secondsPerBeat])

\* scheduleNextToken that gives a rest no highlight event and no beat
scheduleNextToken_RestIsFree(p) ==
  IF p.schedulingFinished THEN p
  ELSE IF p.currentLineIdx >= Len(rawLines)
  THEN queueVisual([p EXCEPT !.schedulingFinished = TRUE],
                   Event("stop", p.nextNoteTime + StopDelay, -1, -1, FALSE))
  ELSE LET line    == rawLines[p.currentLineIdx + 1]
           trimmed == trim(line)
       IN  IF trimmed = << >> \/ trimmed = << "~" >> \/ isCommentLine(line)
           THEN [queueVisual(p, Event("skip", p.nextNoteTime, p.currentLineIdx, -1, FALSE))
                   EXCEPT !.currentLineIdx = @ + 1, !.charIdx = 0]
           ELSE IF p.charIdx >= Len(line)
           THEN [p EXCEPT !.currentLineIdx = @ + 1, !.charIdx = 0]
           ELSE LET token == getNextToken(line, p.charIdx)
                    p1    == [p EXCEPT !.charIdx = token.nextIndex]
                IN  IF token.isRest THEN p1
                    ELSE Bind(scheduleNote(p1, token.text, p1.nextNoteTime,
                                           secondsPerBeat, token.isGrace),
                              LAMBDA q :
                                [queueVisual(q, Event("line", q.nextNoteTime,
                                                      q.currentLineIdx, -1, FALSE))
                                   EXCEPT !.nextNoteTime = @ + secondsPerBeat])

scheduleNextToken(p) ==
  IF p.schedulingFinished THEN p
  ELSE IF p.currentLineIdx >= Len(rawLines)
  THEN queueVisual([p EXCEPT !.schedulingFinished = TRUE],
                   Event("stop", p.nextNoteTime + StopDelay, -1, -1, FALSE))
  ELSE LET line    == rawLines[p.currentLineIdx + 1]
           trimmed == trim(line)
       IN  IF trimmed = << >> \/ trimmed = << "~" >> \/ isCommentLine(line)
           THEN [queueVisual(p, Event("skip", p.nextNoteTime, p.currentLineIdx, -1, FALSE))
                   EXCEPT !.currentLineIdx = @ + 1, !.charIdx = 0]
           ELSE IF p.charIdx >= Len(line)
           THEN [p EXCEPT !.currentLineIdx = @ + 1, !.charIdx = 0]
           ELSE Bind(getNextToken(line, p.charIdx), LAMBDA token :
                  Bind([p EXCEPT !.charIdx = token.nextIndex], LAMBDA p1 :
                    LET p2 == IF ~token.isRest
                              THEN scheduleNote(p1, token.text, p1.nextNoteTime,
                                                secondsPerBeat, token.isGrace)
                              ELSE p1
                    IN  Bind(p2, LAMBDA q :
                          [queueVisual(q, Event("line", q.nextNoteTime,
                                                q.currentLineIdx, -1, token.isRest))
                             EXCEPT !.nextNoteTime = @ + secondsPerBeat])))

\* the loop of scheduler() without the horizon: it runs to the end of the song
RECURSIVE schedulerLoop_NoHorizon(_)
schedulerLoop_NoHorizon(p) ==
  IF p.isPlaying /\ ~p.schedulingFinished
  THEN Bind(scheduleNextToken(p), LAMBDA q : schedulerLoop_NoHorizon(q))
  ELSE p

\* the while loop of scheduler()
RECURSIVE schedulerLoop(_)
schedulerLoop(p) ==
  IF p.isPlaying /\ ~p.schedulingFinished
     /\ p.nextNoteTime < clock + scheduleAheadTime
  THEN Bind(scheduleNextToken(p), LAMBDA q : schedulerLoop(q))
  ELSE p

scheduler(p) ==
  Bind(schedulerLoop(p),
       LAMBDA q : IF q.isPlaying THEN [q EXCEPT !.timers = arm(@)] ELSE q)

\* the loop of draw() handing every event to the sink twice
RECURSIVE drawLoop_DeliversTwice(_)
drawLoop_DeliversTwice(p) ==
  IF Len(p.visualQueue) > 0 /\ (p.visualQueue[1].time <= clock \/ ~p.isPlaying)
  THEN LET event == Head(p.visualQueue)
           q     == [p EXCEPT !.visualQueue = Tail(@)]
       IN  IF event.kind = "stop"
           THEN [p |-> stop(q), done |-> TRUE]
           ELSE Bind([q EXCEPT !.visualLog = Append(Append(@, event), event)],
                     LAMBDA r : IF ~r.isPlaying THEN [p |-> r, done |-> FALSE]
                                ELSE drawLoop_DeliversTwice(r))
  ELSE [p |-> p, done |-> FALSE]

\* the loop of draw() handing the end-of-song marker to the sink before stopping
RECURSIVE drawLoop_ForwardsMarker(_)
drawLoop_ForwardsMarker(p) ==
  IF Len(p.visualQueue) > 0 /\ (p.visualQueue[1].time <= clock \/ ~p.isPlaying)
  THEN LET event == Head(p.visualQueue)
           q     == [p EXCEPT !.visualQueue = Tail(@), !.visualLog = Append(@, event)]
       IN  IF event.kind = "stop"
           THEN [p |-> stop(q), done |-> TRUE]
           ELSE Bind(q, LAMBDA r : IF ~r.isPlaying THEN [p |-> r, done |-> FALSE]
                                   ELSE drawLoop_ForwardsMarker(r))
  ELSE [p |-> p, done |-> FALSE]

\* the while loop of draw(); done tells that draw returned from inside the loop
RECURSIVE drawLoop(_)
drawLoop(p) ==
  IF Len(p.visualQueue) > 0 /\ (p.visualQueue[1].time <= clock \/ ~p.isPlaying)
  THEN LET event == Head(p.visualQueue)
           q     == [p EXCEPT !.visualQueue = Tail(@)]
       IN  IF event.kind = "stop"
           THEN [p |-> stop(q), done |-> TRUE]
           ELSE Bind([q EXCEPT !.visualLog = Append(@, event)],
                     LAMBDA r : IF ~r.isPlaying THEN [p |-> r, done |-> FALSE]
                                ELSE drawLoop(r))
  ELSE [p |-> p, done |-> FALSE]

\* draw() that requests no further animation frame
draw_NoRearm(p) == drawLoop(p).p

draw(p) ==
  Bind(drawLoop(p),
       LAMBDA l : IF ~l.done /\ l.p.isPlaying THEN [l.p EXCEPT !.frames = arm(@)]
                  ELSE l.p)

(***************************************************************************)
(* Bounds and inputs                                                       *)
(***************************************************************************)
\* the audio clock advances in steps of ClockStep ms up to MaxClock ms; past
\* that the model follows it through one more wait of StopDelay ms
ClockStep == 75

MaxClock == 300

\* the number of playback-control calls (load, play, pause, ...) of a run
MaxOps == 4

\* the number of text fragments a sheet text handed to the translator is made of
MaxFrags == 2

\* setTempo's percentages
TempoPercents == { 50, 200 }

\* the songs load() is given: songData[1] (lines), songData[2][0] (bpm), scale
Songs ==
  { [name |-> "notes", bpm |-> 500, scale |-> "D Major",
     lines |-> << << "q", "W" >>, << "~" >>, << "e" >> >>],
    [name |-> "grace", bpm |-> 1000, scale |-> "F Major",
     lines |-> << << "{", "q", "[", "w", "e", "]", "}" >>, << "-", "x" >>,
                  << ".", "[", "q", "7", "]" >> >>] }

NoSeek == [lineIndex |-> -1, wasPlaying |-> FALSE]

NoRun == [clean |-> FALSE, anchor |-> 0, start |-> 0]

NoCall == [op |-> "none", key |-> "", shift |-> FALSE, text |-> << >>]

NoRet == [midi |-> null, text |-> << >>]

(***************************************************************************)
(* Initial state: new MusicLogic(), new AutoPlayer(audio, logic, callbacks) *)
(***************************************************************************)
Init ==
  /\ currentScale = "C Major"
  /\ customBindings = NoBindings
  /\ call = NoCall
  /\ ret = NoRet
  /\ clock = 0
  /\ songData = "null"
  /\ rawLines = << >>
  /\ baseBPM = 150
  /\ tempoScale = 100
  /\ isPlaying = FALSE
  /\ nextNoteTime = 0
  /\ currentLineIdx = 0
  /\ charIdx = 0
  /\ schedulingFinished = FALSE
  /\ visualQueue = << >>
  /\ timers = [held |-> FALSE, orphans |-> 0]
  /\ frames = [held |-> FALSE, orphans |-> 0]
  /\ pc = "idle"
  /\ seekLocals = NoSeek
  /\ audioLog = << >>
  /\ visualLog = << >>
  /\ onStopCount = 0
  /\ run = NoRun
  /\ ops = 0
  /\ ctx = "null"
  /\ samples = {}
  /\ loads = EmptyBag
  /\ sources = << >>
  /\ warnings = << >>
  /\ requested = << >>


(***************************************************************************)
(* AutoPlayer: the operations                                              *)
(***************************************************************************)
\* the player's mutable fields become those of the record q
SetFields(q) ==
  /\ isPlaying' = q.isPlaying
  /\ nextNoteTime' = q.nextNoteTime
  /\ currentLineIdx' = q.currentLineIdx
  /\ charIdx' = q.charIdx
  /\ schedulingFinished' = q.schedulingFinished
  /\ visualQueue' = q.visualQueue
  /\ timers' = q.timers
  /\ frames' = q.frames
  /\ audioLog' = q.audioLog
  /\ visualLog' = q.visualLog
  /\ onStopCount' = q.onStopCount

Set(v) == \E q \in { v } : SetFields(q)

\* the control call just made returned at its guard, before doing anything
ReturnedAtGuard(name) ==
  /\ call' = [NoCall EXCEPT !.op = name]
  /\ UNCHANGED ret

\* the control call just made went past its guard, or has none
PassedGuard ==
  /\ call' = NoCall
  /\ UNCHANGED ret

\* a playback-control call is made: the caller is idle and the budget allows it
ControlCall ==
  /\ pc = "idle"
  /\ ops < MaxOps
  /\ ops' = ops + 1

\* the player is Stopped: not playing, cursor (0,0), nothing queued
Stopped ==
  /\ ~isPlaying
  /\ currentLineIdx = 0
  /\ charIdx = 0
  /\ visualQueue = << >>
  /\ ~schedulingFinished

\* play() that keeps the time anchor it finds
playEnter_KeepsAnchor(p) ==
  [p EXCEPT !.isPlaying = TRUE]

\* play() that takes the cursor back to the start of its line
playEnter_Rewinds(p) ==
  [p EXCEPT !.isPlaying = TRUE, !.nextNoteTime = clock + SchedLatency,
            !.charIdx = 0]

\* play(), lines 65-69: the guard, the flag and the time anchor
playEnter(p) ==
  [p EXCEPT !.isPlaying = TRUE, !.nextNoteTime = clock + SchedLatency]

\* load(songData), and the scale selection that goes with it
Load(song) ==
  /\ ControlCall
  /\ Set(reset(stop(Player)))
  /\ songData' = song.name
  /\ baseBPM' = song.bpm
  /\ rawLines' = song.lines
  /\ currentScale' = song.scale
  /\ run' = NoRun
  /\ PassedGuard
  /\ UNCHANGED << engineVars, customBindings, clock, tempoScale, pc, seekLocals >>

\* setTempo() that also takes a new time anchor
SetTempo_ReAnchors(percent) ==
  /\ ControlCall
  /\ tempoScale' = percent
  /\ nextNoteTime' = clock + SchedLatency
  /\ run' = NoRun
  /\ PassedGuard
  /\ UNCHANGED << engineVars, logicVars, clock, songData, rawLines, baseBPM, isPlaying,
                  currentLineIdx, charIdx, schedulingFinished,
                  visualQueue, timers, frames, pc, seekLocals, audioLog, visualLog,
                  onStopCount >>

SetTempo(percent) ==
  /\ ControlCall
  /\ tempoScale' = percent
  /\ run' = NoRun
  /\ PassedGuard
  /\ UNCHANGED << engineVars, logicVars, clock, songData, rawLines, baseBPM, isPlaying,
                  nextNoteTime, currentLineIdx, charIdx, schedulingFinished,
                  visualQueue, timers, frames, pc, seekLocals, audioLog, visualLog,
                  onStopCount >>

\* play() without its guard on the song
PlayBegin_NoGuard ==
  /\ Set(playEnter(Player))
  /\ PassedGuard
  /\ pc' = "play_sched"
  /\ run' = NoRun

\* play() up to the call of scheduler(); no song loaded: play() returns at once
PlayBegin ==
  IF songData = "null"
  THEN /\ run' = NoRun
       /\ ReturnedAtGuard("play")
       /\ UNCHANGED << isPlaying, nextNoteTime, currentLineIdx, charIdx,
                       schedulingFinished, visualQueue, timers, frames, pc,
                       audioLog, visualLog, onStopCount >>
  ELSE /\ Set(playEnter(Player))
       /\ PassedGuard
       /\ pc' = "play_sched"
       /\ run' = IF Stopped
                 THEN [clean |-> TRUE, anchor |-> clock + SchedLatency,
                       start |-> Len(audioLog)]
                 ELSE NoRun

Play ==
  /\ ControlCall
  /\ PlayBegin
  /\ UNCHANGED << engineVars, logicVars, clock, songData, rawLines, baseBPM, tempoScale,
                  seekLocals >>

\* play(), line 71: this.scheduler()
PlayScheduler ==
  /\ pc = "play_sched"
  /\ Set(scheduler(Player))
  /\ pc' = "play_draw"
  /\ UNCHANGED << engineVars, logicVars, callVars, clock, songData, rawLines, baseBPM, tempoScale,
                  seekLocals, run, ops >>

\* play(), line 72: this.draw(); play() returns, and so does a seek() that called it
PlayDraw ==
  /\ pc = "play_draw"
  /\ Set(draw(Player))
  /\ pc' = "idle"
  /\ seekLocals' = NoSeek
  /\ UNCHANGED << engineVars, logicVars, callVars, clock, songData, rawLines, baseBPM, tempoScale,
                  run, ops >>

Pause ==
  /\ ControlCall
  /\ Set(pause(Player))
  /\ run' = NoRun
  /\ PassedGuard
  /\ UNCHANGED << engineVars, logicVars, clock, songData, rawLines, baseBPM, tempoScale,
                  pc, seekLocals >>

Stop ==
  /\ ControlCall
  /\ Set(stop(Player))
  /\ run' = NoRun
  /\ PassedGuard
  /\ UNCHANGED << engineVars, logicVars, clock, songData, rawLines, baseBPM, tempoScale,
                  pc, seekLocals >>

\* togglePlay(): this.isPlaying ? this.pause() : this.play()
TogglePlay ==
  /\ ControlCall
  /\ IF isPlaying
     THEN /\ Set(pause(Player))
          /\ run' = NoRun
          /\ PassedGuard
          /\ UNCHANGED pc
     ELSE PlayBegin
  /\ UNCHANGED << engineVars, logicVars, clock, songData, rawLines, baseBPM, tempoScale,
                  seekLocals >>

\* the guard of seek() without its upper bound
seekRefused_NoUpperBound(lineIndex) == songData = "null" \/ lineIndex < 0

\* seek(), lines 88-89: the targets seek() returns on
seekRefused(lineIndex) ==
  songData = "null" \/ lineIndex < 0 \/ lineIndex >= Len(rawLines)

\* seek(lineIndex), lines 88-103: up to the event queued for the target line
Seek(lineIndex) ==
  /\ ControlCall
  /\ run' = NoRun
  /\ IF seekRefused(lineIndex)
     THEN /\ ReturnedAtGuard("seek")
          /\ UNCHANGED << isPlaying, nextNoteTime, currentLineIdx, charIdx,
                          schedulingFinished, visualQueue, timers, frames, pc,
                          seekLocals, audioLog, visualLog, onStopCount >>
     ELSE LET p0 == IF isPlaying THEN pause(Player) ELSE Player
              p1 == [p0 EXCEPT !.currentLineIdx = lineIndex, !.charIdx = 0,
                               !.visualQueue = << >>, !.schedulingFinished = FALSE]
          IN  /\ Set(queueVisual(p1, Event("line", 0, lineIndex, -1, FALSE)))
              /\ PassedGuard
              /\ seekLocals' = [lineIndex |-> lineIndex, wasPlaying |-> isPlaying]
              /\ pc' = "seek_draw"
  /\ UNCHANGED << engineVars, logicVars, clock, songData, rawLines, baseBPM, tempoScale >>

\* seek(), line 104: this.draw(), the forced single draw
SeekDraw ==
  /\ pc = "seek_draw"
  /\ Set(draw(Player))
  /\ pc' = IF seekLocals.wasPlaying THEN "seek_resume" ELSE "idle"
  /\ seekLocals' = IF seekLocals.wasPlaying THEN seekLocals ELSE NoSeek
  /\ UNCHANGED << engineVars, logicVars, callVars, clock, songData, rawLines, baseBPM, tempoScale,
                  run, ops >>

\* seek(), line 106: if (wasPlaying) this.play(), up to play's call of scheduler()
SeekResume ==
  /\ pc = "seek_resume"
  /\ Set(playEnter(Player))
  /\ pc' = "play_sched"
  /\ UNCHANGED << engineVars, logicVars, callVars, clock, songData, rawLines, baseBPM, tempoScale,
                  seekLocals, run, ops >>

(***************************************************************************)
(* The callbacks and the audio clock                                       *)
(***************************************************************************)
Background ==
  UNCHANGED << engineVars, logicVars, callVars, clock, songData, rawLines, baseBPM, tempoScale,
               pc, seekLocals, run, ops >>

\* the setTimeout callback whose id the player holds runs scheduler()
TimerFires ==
  /\ pc = "idle"
  /\ timers.held
  /\ Set(scheduler([Player EXCEPT !.timers.held = FALSE]))
  /\ Background

\* a setTimeout callback whose id was overwritten runs scheduler()
OrphanTimerFires ==
  /\ pc = "idle"
  /\ timers.orphans > 0
  /\ Set(scheduler([Player EXCEPT !.timers.orphans = @ - 1]))
  /\ Background

\* the requestAnimationFrame callback whose id the player holds runs draw()
FrameFires ==
  /\ pc = "idle"
  /\ frames.held
  /\ Set(draw([Player EXCEPT !.frames.held = FALSE]))
  /\ Background

\* a requestAnimationFrame callback whose id was overwritten runs draw()
OrphanFrameFires ==
  /\ pc = "idle"
  /\ frames.orphans > 0
  /\ Set(draw([Player EXCEPT !.frames.orphans = @ - 1]))
  /\ Background

\* the audio subsystem advances its clock between two tasks of the event loop
Advance ==
  /\ pc = "idle"
  /\ clock + ClockStep <= MaxClock
  /\ clock' = clock + ClockStep
  /\ UNCHANGED << engineVars, logicVars, callVars, songData, rawLines, baseBPM, tempoScale,
                  isPlaying, nextNoteTime, currentLineIdx, charIdx,
                  schedulingFinished, visualQueue, timers, frames, pc, seekLocals,
                  audioLog, visualLog, onStopCount, run, ops >>

\* the audio clock runs on for the delay of the end-of-song marker
AdvanceLong ==
  /\ pc = "idle"
  /\ clock <= MaxClock
  /\ clock' = clock + StopDelay
  /\ UNCHANGED << engineVars, logicVars, callVars, songData, rawLines, baseBPM, tempoScale,
                  isPlaying, nextNoteTime, currentLineIdx, charIdx,
                  schedulingFinished, visualQueue, timers, frames, pc, seekLocals,
                  audioLog, visualLog, onStopCount, run, ops >>

Next ==
  \/ \E song \in Songs : Load(song)
  \/ \E percent \in TempoPercents : SetTempo(percent)
  \/ Play
  \/ PlayScheduler
  \/ PlayDraw
  \/ Pause
  \/ Stop
  \/ TogglePlay
  \/ \E lineIndex \in -1..3 : Seek(lineIndex)
  \/ SeekDraw
  \/ SeekResume
  \/ TimerFires
  \/ OrphanTimerFires
  \/ FrameFires
  \/ OrphanFrameFires
  \/ Advance
  \/ AdvanceLong

Spec == Init /\ [][Next]_vars

(***************************************************************************)
(* The pitch mapper and the translator applied to bounded inputs           *)
(***************************************************************************)
\* key identifiers handed to getMidi: the keyboard table, the shift symbols,
\* some upper-case letters, the re-bindable special keys and an unknown key
InputKeys ==
  { keyMap[i] : i \in 1..Len(keyMap) } \cup DOMAIN shiftMap
  \cup { "Q", "E", "M", "[", "{", ";", ":", "'", "\"", "-", "|" }

\* binding tables of setBindings: main.js binds the special keys only
BindingTables ==
  { NoBindings,
    ";" :> [norm |-> "q", shift |-> "W"] @@ "[" :> [norm |-> "", shift |-> "!"]
      @@ "'" :> [norm |-> "E", shift |-> "r"] }

\* the pieces sheet texts are put together from
Fragments ==
  { << "q" >>, << "E" >>, << "#" >>, << "4" >>, << "7" >>, << "(" >>, << " " >>,
    << "\n" >>, << "-" >>, << "<" >>, << ";" >>, << "[", "q", "w", "]" >>,
    << "<", "c", "4", ">" >> }

\* the texts made of at most n fragments
RECURSIVE TextsUpTo(_)
TextsUpTo(n) ==
  IF n = 0 THEN { << >> }
  ELSE LET shorter == TextsUpTo(n - 1)
       IN  shorter \cup { t \o f : t \in shorter, f \in Fragments }

\* every key character of a sheet as a text of its own: the keys of the
\* keyboard table, their upper-case forms and the shift symbols of the digits
KeyTexts ==
  { << keyMap[i] >> : i \in 1..Len(keyMap) }
  \cup { << c >> : c \in DOMAIN UpperToLower }
  \cup { << c >> : c \in DOMAIN shiftMap }

Texts == TextsUpTo(MaxFrags) \cup KeyTexts

\* the engine is in any of its scales, under any of the binding tables, and
\* no function has been applied yet; the player is as constructed
InitAny ==
  /\ currentScale \in ScaleNames
  /\ customBindings \in BindingTables
  /\ call = NoCall
  /\ ret = NoRet
  /\ clock = 0
  /\ songData = "null"
  /\ rawLines = << >>
  /\ baseBPM = 150
  /\ tempoScale = 100
  /\ isPlaying = FALSE
  /\ nextNoteTime = 0
  /\ currentLineIdx = 0
  /\ charIdx = 0
  /\ schedulingFinished = FALSE
  /\ visualQueue = << >>
  /\ timers = [held |-> FALSE, orphans |-> 0]
  /\ frames = [held |-> FALSE, orphans |-> 0]
  /\ pc = "idle"
  /\ seekLocals = NoSeek
  /\ audioLog = << >>
  /\ visualLog = << >>
  /\ onStopCount = 0
  /\ run = NoRun
  /\ ops = 0
  /\ ctx = "null"
  /\ samples = {}
  /\ loads = EmptyBag
  /\ sources = << >>
  /\ warnings = << >>
  /\ requested = << >>

CallGetMidi(input, isShift) ==
  /\ call.op = "none"
  /\ call' = [op |-> "getMidi", key |-> input, shift |-> isShift, text |-> << >>]
  /\ ret' = [midi |-> getMidi(input, isShift, customBindings, currentScale),
             text |-> << >>]
  /\ UNCHANGED << engineVars, logicVars, playerVars >>

CallKeysToNotes(sheetString) ==
  /\ call.op = "none"
  /\ call' = [op |-> "keysToNotes", key |-> "", shift |-> FALSE, text |-> sheetString]
  /\ ret' = [midi |-> null, text |-> keysToNotes(sheetString, customBindings, currentScale)]
  /\ UNCHANGED << engineVars, logicVars, playerVars >>

CallNotesToKeys(sheetString) ==
  /\ call.op = "none"
  /\ call' = [op |-> "notesToKeys", key |-> "", shift |-> FALSE, text |-> sheetString]
  /\ ret' = [midi |-> null, text |-> notesToKeys(sheetString, customBindings, currentScale)]
  /\ UNCHANGED << engineVars, logicVars, playerVars >>

\* the pitches the inverse search is asked for: from below the lowest key to
\* above the highest shifted one
TargetPitches == 10..75

CallFindKeyForMidi(targetMidi) ==
  /\ call.op = "none"
  /\ call' = [op |-> "findKeyForMidi", key |-> "", shift |-> FALSE, text |-> << >>,
              midi |-> targetMidi]
  /\ ret' = [midi |-> null, text |-> findKeyForMidi(targetMidi, customBindings, currentScale)]
  /\ UNCHANGED << engineVars, logicVars, playerVars >>

\* the editor switches back from note names to keys: notesToKeys is applied to
\* what keysToNotes returned; call.text keeps the text the round trip began with
CallRoundTrip ==
  /\ call.op = "keysToNotes"
  /\ call' = [call EXCEPT !.op = "roundTrip"]
  /\ ret' = [midi |-> null, text |-> notesToKeys(ret.text, customBindings, currentScale)]
  /\ UNCHANGED << engineVars, logicVars, playerVars >>

NextLogic ==
  \/ \E input \in InputKeys, isShift \in BOOLEAN : CallGetMidi(input, isShift)
  \/ \E sheetString \in Texts : CallKeysToNotes(sheetString)
  \/ \E sheetString \in Texts : CallNotesToKeys(sheetString)
  \/ CallRoundTrip
  \/ \E targetMidi \in TargetPitches : CallFindKeyForMidi(targetMidi)

SpecLogic == InitAny /\ [][NextLogic]_vars

(***************************************************************************)
(* The tokenizer and scheduleNextToken applied to bounded lines            *)
(***************************************************************************)
\* the number of fragments a line of a song is made of
MaxLineFrags == 3

\* the pieces the lines are put together from
LineFragments ==
  { << "a" >>, << "b" >>, << "." >>, << " " >>, << "~" >>, << "-" >>, << "[" >>,
    << "{" >>, << "[", "c", "e", "g", "]" >>, << "{", "a", "[", "c", "e", "]", "}" >>,
    << "Q" >>, << ";" >> }

\* the lines made of at most n fragments
RECURSIVE LinesUpTo(_)
LinesUpTo(n) ==
  IF n = 0 THEN { << >> }
  ELSE LET shorter == LinesUpTo(n - 1)
       IN  shorter \cup { t \o f : t \in shorter, f \in LineFragments }

Lines == LinesUpTo(MaxLineFrags)

\* a song of one line was loaded at 500 BPM, under any of the binding tables,
\* and play() has set the Playing flag and the time anchor at audio clock 0;
\* scheduler() is about to run
InitLine ==
  /\ currentScale = "C Major"
  /\ customBindings \in BindingTables
  /\ call = NoCall
  /\ ret = NoRet
  /\ clock = 0
  /\ songData = "line"
  /\ rawLines \in { << line >> : line \in Lines }
  /\ baseBPM = 500
  /\ tempoScale = 100
  /\ isPlaying = TRUE
  /\ nextNoteTime = SchedLatency
  /\ currentLineIdx = 0
  /\ charIdx = 0
  /\ schedulingFinished = FALSE
  /\ visualQueue = << >>
  /\ timers = [held |-> FALSE, orphans |-> 0]
  /\ frames = [held |-> FALSE, orphans |-> 0]
  /\ pc = "play_sched"
  /\ seekLocals = NoSeek
  /\ audioLog = << >>
  /\ visualLog = << >>
  /\ onStopCount = 1
  /\ run = NoRun
  /\ ops = 0
  /\ ctx = "null"
  /\ samples = {}
  /\ loads = EmptyBag
  /\ sources = << >>
  /\ warnings = << >>
  /\ requested = << >>

\* one pass of scheduler()'s loop body: this.scheduleNextToken()
ScheduleNextToken ==
  /\ call.op = "none"
  /\ isPlaying
  /\ ~schedulingFinished
  /\ Set(scheduleNextToken(Player))
  /\ UNCHANGED << engineVars, logicVars, callVars, clock, songData, rawLines, baseBPM, tempoScale,
                  pc, seekLocals, run, ops >>

\* getNextToken(line, startIndex) on the line of the song, at any position of it
CallGetNextToken(startIndex) ==
  /\ call.op = "none"
  /\ startIndex < Len(rawLines[1])
  /\ call' = [op |-> "getNextToken", key |-> "", shift |-> FALSE,
              text |-> rawLines[1], index |-> startIndex]
  /\ ret' = getNextToken(rawLines[1], startIndex)
  /\ UNCHANGED << engineVars, logicVars, playerVars >>

NextLine ==
  \/ ScheduleNextToken
  \/ \E startIndex \in 0..(5 * MaxLineFrags) : CallGetNextToken(startIndex)

SpecLine == InitLine /\ [][NextLine]_vars

(***************************************************************************)
(* AudioEngine: the sample cache, its loads and the sources it starts      *)
(***************************************************************************)
\* play(): only 72 notes on the keyboard
TopSample == 72

\* the number of play() and preload() calls made to the engine
MaxRequests == 3

\* the pitches the engine is asked for: two that have a sample and the pitch
\* of the highest key when shifted, above the last sample
EnginePitches == { 60, 61, 73 }

\* the start times the engine is asked for; 0 is play()'s default
PlayTimes == { 0, 200 }

noteFileNames ==
  << "c", "c~", "d", "d~", "e", "f", "f~", "g", "g~", "a", "a~", "b" >>

\* getFileName(midi): the note and the octave of ./notes/<note><octave>.mp3
getFileName(midi) ==
  [note |-> noteFileNames[(midi % 12) + 1], octave |-> (midi \div 12) - 1]

\* a Map.set that drops every other entry of the map
mapSet_Clears(m, k, v) == { [key |-> k, value |-> v] }

\* Map.prototype.set
mapSet(m, k, v) == { e \in m : e.key # k } \cup { [key |-> k, value |-> v] }

\* Map.prototype.has
mapHas(m, k) == \E e \in m : e.key = k

\* a load of the sample of a pitch, begun by play() or by a call of preload()
Load_(midi, by) == [midi |-> midi, by |-> by]

\* a call is made to the engine: the budget allows it
EngineCall(op, midi) ==
  /\ pc = "idle"
  /\ Len(requested) < MaxRequests
  /\ requested' = Append(requested, [op |-> op, midi |-> midi])

\* preload(midi) up to its first await: init(), the has() test, fetch(url)
preloadBegin(midi, by) ==
  /\ ctx' = "context"
  /\ loads' = IF mapHas(samples, midi) THEN loads
              ELSE loads (+) SetToBag({ Load_(midi, by) })

Preload(midi) ==
  /\ EngineCall("preload", midi)
  /\ preloadBegin(midi, "preload")
  /\ UNCHANGED << samples, sources, warnings, logicVars, callVars, playerVars >>

\* play(midi, time): nothing above the top sample; a pitch with no sample
\* stored is loaded and not played; else a source is started at time, or at
\* the current time if time is 0
EnginePlay(midi, time) ==
  /\ EngineCall("play", midi)
  /\ IF midi > TopSample
     THEN UNCHANGED << ctx, loads, sources >>
     ELSE IF ~mapHas(samples, midi)
     THEN preloadBegin(midi, "play") /\ UNCHANGED sources
     ELSE /\ ctx' = "context"
          /\ sources' = Append(sources, [midi |-> midi,
                                         time |-> IF time = 0 THEN clock ELSE time])
          /\ UNCHANGED loads
  /\ UNCHANGED << samples, warnings, logicVars, callVars, playerVars >>

\* a failed load that leaves an entry for no file in the cache
LoadFails_StoresSilence(midi, by) ==
  /\ pc = "idle"
  /\ BagIn(Load_(midi, by), loads)
  /\ loads' = loads (-) SetToBag({ Load_(midi, by) })
  /\ samples' = mapSet(samples, midi, [note |-> "", octave |-> 0])
  /\ warnings' = Append(warnings, Load_(midi, by))
  /\ UNCHANGED << ctx, sources, requested, logicVars, callVars, playerVars >>

\* the rest of a preload(): the response was ok and was decoded, the buffer is
\* stored
LoadCompletes(midi, by) ==
  /\ pc = "idle"
  /\ BagIn(Load_(midi, by), loads)
  /\ loads' = loads (-) SetToBag({ Load_(midi, by) })
  /\ samples' = mapSet(samples, midi, getFileName(midi))
  /\ UNCHANGED << ctx, sources, warnings, requested, logicVars, callVars, playerVars >>

\* the rest of a preload(): fetch, the response or the decoding failed; the
\* catch block warns
LoadFails(midi, by) ==
  /\ pc = "idle"
  /\ BagIn(Load_(midi, by), loads)
  /\ loads' = loads (-) SetToBag({ Load_(midi, by) })
  /\ warnings' = Append(warnings, Load_(midi, by))
  /\ UNCHANGED << ctx, samples, sources, requested, logicVars, callVars, playerVars >>

\* the engine as constructed, by the side of a player as constructed
InitAudio ==
  /\ currentScale = "C Major"
  /\ customBindings = NoBindings
  /\ call = NoCall
  /\ ret = NoRet
  /\ clock = 0
  /\ songData = "null"
  /\ rawLines = << >>
  /\ baseBPM = 150
  /\ tempoScale = 100
  /\ isPlaying = FALSE
  /\ nextNoteTime = 0
  /\ currentLineIdx = 0
  /\ charIdx = 0
  /\ schedulingFinished = FALSE
  /\ visualQueue = << >>
  /\ timers = [held |-> FALSE, orphans |-> 0]
  /\ frames = [held |-> FALSE, orphans |-> 0]
  /\ pc = "idle"
  /\ seekLocals = NoSeek
  /\ audioLog = << >>
  /\ visualLog = << >>
  /\ onStopCount = 0
  /\ run = NoRun
  /\ ops = 0
  /\ ctx = "null"
  /\ samples = {}
  /\ loads = EmptyBag
  /\ sources = << >>
  /\ warnings = << >>
  /\ requested = << >>

NextAudio ==
  \/ \E midi \in EnginePitches : Preload(midi)
  \/ \E midi \in EnginePitches, time \in PlayTimes : EnginePlay(midi, time)
  \/ \E midi \in EnginePitches, by \in { "play", "preload" } : LoadCompletes(midi, by)
  \/ \E midi \in EnginePitches, by \in { "play", "preload" } : LoadFails(midi, by)
  \/ Advance

SpecAudio == InitAudio /\ [][NextAudio]_vars

(***************************************************************************)
(* One playback of a loaded song, left to the callbacks and the clock      *)
(***************************************************************************)
\* the audio clock is followed up to MaxLiveClock ms, past the end-of-song
\* marker of the slowest song
MaxLiveClock == 2000

\* the tempo percentages a playback is left to run at
LiveTempos == { 50, 100, 200 }

\* load(song) and setTempo() were called on a new player, the audio clock at 0
\* or one step later
InitLive ==
  /\ \E song \in Songs :
       /\ songData = song.name
       /\ rawLines = song.lines
       /\ baseBPM = song.bpm
       /\ currentScale = song.scale
  /\ customBindings = NoBindings
  /\ call = NoCall
  /\ ret = NoRet
  /\ clock \in { 0, ClockStep }
  /\ tempoScale \in LiveTempos
  /\ isPlaying = FALSE
  /\ nextNoteTime = 0
  /\ currentLineIdx = 0
  /\ charIdx = 0
  /\ schedulingFinished = FALSE
  /\ visualQueue = << >>
  /\ timers = [held |-> FALSE, orphans |-> 0]
  /\ frames = [held |-> FALSE, orphans |-> 0]
  /\ pc = "idle"
  /\ seekLocals = NoSeek
  /\ audioLog = << >>
  /\ visualLog = << >>
  /\ onStopCount = 1
  /\ run = NoRun
  /\ ops = 1
  /\ ctx = "null"
  /\ samples = {}
  /\ loads = EmptyBag
  /\ sources = << >>
  /\ warnings = << >>
  /\ requested = << >>

\* play() is called once, and no control call after it
PlayOnce == ops = 1 /\ Play

\* the audio subsystem advances its clock between two tasks of the event loop;
\* the clock is followed from the call of play() on
ClockRuns ==
  /\ pc = "idle"
  /\ ops > 1
  /\ clock + ClockStep <= MaxLiveClock
  /\ clock' = clock + ClockStep
  /\ UNCHANGED << engineVars, logicVars, callVars, songData, rawLines, baseBPM, tempoScale,
                  isPlaying, nextNoteTime, currentLineIdx, charIdx,
                  schedulingFinished, visualQueue, timers, frames, pc, seekLocals,
                  audioLog, visualLog, onStopCount, run, ops >>

NextLive ==
  \/ PlayOnce
  \/ PlayScheduler
  \/ PlayDraw
  \/ TimerFires
  \/ FrameFires
  \/ ClockRuns

\* play() runs to its end once called; the browser runs every pending timer
\* and frame callback; the audio clock keeps advancing
SpecLive ==
  /\ InitLive
  /\ [][NextLive]_vars
  /\ WF_vars(PlayScheduler)
  /\ WF_vars(PlayDraw)
  /\ WF_vars(TimerFires)
  /\ WF_vars(FrameFires)
  /\ WF_vars(ClockRuns)

(***************************************************************************)
(* A loaded song under play(), pause() and togglePlay() alone              *)
(***************************************************************************)
NextPause ==
  \/ Play
  \/ PlayScheduler
  \/ PlayDraw
  \/ Pause
  \/ TogglePlay
  \/ TimerFires
  \/ OrphanTimerFires
  \/ FrameFires
  \/ OrphanFrameFires
  \/ Advance
  \/ AdvanceLong

SpecPause == InitLive /\ [][NextPause]_vars

(***************************************************************************)
(* The player under timely scheduling ticks: while the player is Playing   *)
(* the audio clock advances only from one run of the timer callback to the *)
(* next, by less than the scheduling horizon                               *)
(***************************************************************************)
\* the audio-clock time between a tick and the next one
TickWaits == { 0, ClockStep }

\* the timer callback runs scheduler(), and d ms pass before the next tick
TickThenWait(d) ==
  /\ pc = "idle"
  /\ timers.held
  /\ d < scheduleAheadTime
  /\ clock + d <= MaxClock
  /\ Set(scheduler([Player EXCEPT !.timers.held = FALSE]))
  /\ clock' = clock + d
  /\ UNCHANGED << engineVars, logicVars, callVars, songData, rawLines, baseBPM,
                  tempoScale, pc, seekLocals, run, ops >>

\* the audio clock while the player is not Playing
IdleAdvance == ~isPlaying /\ (Advance \/ AdvanceLong)

NextTick ==
  \/ \E percent \in TempoPercents : SetTempo(percent)
  \/ Play
  \/ PlayScheduler
  \/ PlayDraw
  \/ Pause
  \/ Stop
  \/ TogglePlay
  \/ \E lineIndex \in -1..3 : Seek(lineIndex)
  \/ SeekDraw
  \/ SeekResume
  \/ \E d \in TickWaits : TickThenWait(d)
  \/ OrphanTimerFires
  \/ FrameFires
  \/ OrphanFrameFires
  \/ IdleAdvance

SpecTick == InitLive /\ [][NextTick]_vars

(***************************************************************************)
(* Claims about the pitch mapper (specification SpecLogic)               *)
(***************************************************************************)
KeyboardKeys == { keyMap[i] : i \in 1..Len(keyMap) }

\* the zero-based position of a key of the keyboard table
PositionOf(k) == indexOf(keyMap, k) - 1

\* the natural note name of a key of the keyboard table
NoteNameOf(k) == whiteNames[(PositionOf(k) % 7) + 1]

\* the pitch the claims call natural: ((position div 7) + 1) * 12 + offset(name)
NaturalPitchOf(k) == ((PositionOf(k) \div 7) + 1) * 12 + whiteOffsets[NoteNameOf(k)]

\* getMidi was applied to a key of the keyboard table
KeyResolved == call.op = "getMidi" /\ call.key \in KeyboardKeys

\* C1: for a key of the keyboard table whose natural note name is not in the
\* altered set of the current scale, getMidi returns the natural pitch with
\* shift off and the natural pitch + 1 with shift on.
C1_ForeignNotes ==
  (KeyResolved /\ NoteNameOf(call.key) \notin scales[currentScale].notes)
    => ret.midi = IF call.shift THEN NaturalPitchOf(call.key) + 1
                  ELSE NaturalPitchOf(call.key)

\* C1 witness: shifted "e" (an A) in D Major, which alters only F and C: 33 + 1
C1_Witness ==
  /\ KeyResolved
  /\ call.key = "e"
  /\ call.shift
  /\ currentScale = "D Major"
  /\ ret.midi = 34

\* C2: for a key whose natural note name is in the altered set of the current
\* scale: a sharps scale gives natural + 1 unshifted and natural shifted, a flats
\* scale gives natural - 1 unshifted and natural shifted.
C2_AlteredNotes ==
  (KeyResolved /\ NoteNameOf(call.key) \in scales[currentScale].notes)
    => ret.midi = IF call.shift THEN NaturalPitchOf(call.key)
                  ELSE IF scales[currentScale].sharps THEN NaturalPitchOf(call.key) + 1
                  ELSE NaturalPitchOf(call.key) - 1

\* C2 witness: unshifted "7" (a B) in F Major, a flats scale altering B: 23 - 1
C2_Witness ==
  /\ KeyResolved
  /\ call.key = "7"
  /\ ~call.shift
  /\ currentScale = "F Major"
  /\ ~scales[currentScale].sharps
  /\ ret.midi = 22

(***************************************************************************)
(* Claims about the translator (specification SpecLogic)                 *)
(***************************************************************************)
\* the pitch the player sounds a character of a token as: upper case and shift
\* symbols sound shifted; null for a character that is silent
SoundOfChar(c) ==
  getMidi(IF c \in DOMAIN shiftMap THEN shiftMap[c]
          ELSE IF IsUpper(c) THEN toLowerCase(c) ELSE c,
          IsUpper(c) \/ c \in DOMAIN shiftMap, customBindings, currentScale)

\* the pitch the translator reads a character as (upper case and shift symbols
\* read as shifted); null for a character it passes through
PitchOfChar(c) ==
  IF c \in SyntaxChars THEN null
  ELSE getMidi(IF IsUpper(c) THEN toLowerCase(c)
               ELSE IF c \in DOMAIN shiftMap THEN shiftMap[c] ELSE c,
               IsUpper(c) \/ c \in DOMAIN shiftMap, customBindings, currentScale)

\* c is the key text the inverse search prefers for its own pitch: an unshifted
\* key of the table that no earlier unshifted key aliases, or a shifted key whose
\* pitch no unshifted key and no earlier shifted key gives
IsPreferredKey(c) ==
  LET unshifted(i) == getMidi(keyMap[i], FALSE, customBindings, currentScale)
      shifted(i)   == getMidi(keyMap[i], TRUE, customBindings, currentScale)
      m            == PitchOfChar(c)
  IN  \/ /\ c \in KeyboardKeys
         /\ \A i \in 1..PositionOf(c) : unshifted(i) # m
      \/ /\ \E i \in 1..Len(keyMap) :
              /\ c = shiftedKeyChar(keyMap[i])
              /\ shifted(i) = m
              /\ \A j \in 1..(i - 1) : shifted(j) # m
         /\ \A i \in 1..Len(keyMap) : unshifted(i) # m

\* the round trip was applied to a sheet text
RoundTripDone == call.op = "roundTrip"

\* C3 as claimed: the round trip reproduces the text, every resolvable
\* character as the same key character
C3_RoundTripIdentity == RoundTripDone => ret.text = call.text

\* what the round trip makes of a line that is not a comment: the same length,
\* every character that does not resolve kept, every resolvable character turned
\* into a key character the player sounds at the same pitch (it may be "(" or
\* ")", which keysToNotes itself would pass through), which is the character
\* itself when it is the key the inverse search prefers
SamePitchLine(line, back) ==
  /\ Len(back) = Len(line)
  /\ \A i \in 1..Len(line) :
       IF PitchOfChar(line[i]) = null THEN back[i] = line[i]
       ELSE /\ SoundOfChar(back[i]) = PitchOfChar(line[i])
            /\ IsPreferredKey(line[i]) => back[i] = line[i]

\* C3 as amended: the round trip keeps the lines of the text apart; a line that
\* is not a comment comes back character by character with the same pitches
\* (SamePitchLine), not always the same key characters; a comment line is left
\* alone by keysToNotes and comes back with the note tokens written in it
\* replaced by notesToKeys, unchanged when it holds no "<".
C3_RoundTripSamePitch ==
  RoundTripDone =>
    LET lines == splitLines(call.text)
        backs == splitLines(ret.text)
    IN  /\ Len(backs) = Len(lines)
        /\ \A i \in 1..Len(lines) :
             IF isCommentLine(lines[i])
             THEN /\ backs[i] = notesToKeys(lines[i], customBindings, currentScale)
                  /\ indexOf(lines[i], "<") = 0 => backs[i] = lines[i]
             ELSE SamePitchLine(lines[i], backs[i])

\* C3 witness: "#" (shifted 3, an F in C Major) comes back as the unshifted "4"
C3_Witness ==
  /\ RoundTripDone
  /\ currentScale = "C Major"
  /\ call.text = << "#", "q" >>
  /\ ret.text = << "4", "q" >>

(***************************************************************************)
(* Claims about the player (specification Spec)                       *)
(***************************************************************************)
\* the audio requests of the characters of one unit, from 1-based position i on
RECURSIVE UnitRequests(_, _, _)
UnitRequests(unit, i, t) ==
  IF i > Len(unit) THEN << >>
  ELSE (IF SoundOfChar(unit[i]) = null THEN << >>
        ELSE << [midi |-> SoundOfChar(unit[i]), time |-> t] >>)
       \o UnitRequests(unit, i + 1, t)

\* the audio requests of the units of a token, from 1-based position idx on
RECURSIVE UnitsRequests(_, _, _, _)
UnitsRequests(units, idx, t, step) ==
  IF idx > Len(units) THEN << >>
  ELSE UnitRequests(units[idx], 1, t + (idx - 1) * step)
       \o UnitsRequests(units, idx + 1, t, step)

\* the audio requests of one token that starts t ms after the anchor
TokenRequests(token, t) ==
  IF token.isRest \/ token.text = << >> THEN << >>
  ELSE LET units == noteUnits(token.text, 0)
       IN  UnitsRequests(units, 1, t,
                         IF token.isGrace /\ Len(units) > 0
                         THEN secondsPerBeat \div Len(units) ELSE 0)

\* the audio requests of the song from the cursor (lineIdx, chIdx) on, the next
\* token starting t ms after the anchor: a function of the song, the scale, the
\* bindings and the tempo alone
RECURSIVE ExpectedFrom(_, _, _)
ExpectedFrom(lineIdx, chIdx, t) ==
  IF lineIdx >= Len(rawLines) THEN << >>
  ELSE LET line == rawLines[lineIdx + 1]
       IN  IF trim(line) = << >> \/ trim(line) = << "~" >> \/ isCommentLine(line)
              \/ chIdx >= Len(line)
           THEN ExpectedFrom(lineIdx + 1, 0, t)
           ELSE LET token == getNextToken(line, chIdx)
                IN  TokenRequests(token, t)
                    \o ExpectedFrom(lineIdx, token.nextIndex, t + secondsPerBeat)

ExpectedSchedule == ExpectedFrom(0, 0, 0)

\* the audio requests of the run in progress, their times taken from its anchor
RunRequests ==
  [i \in 1..(Len(audioLog) - run.start) |->
     [midi |-> audioLog[run.start + i].midi,
      time |-> audioLog[run.start + i].time - run.anchor]]

\* C4: in a run played from Stopped with no control call since, the audio
\* requests (pitch, start time minus the play anchor) are at every moment a
\* prefix of one sequence fixed by the song, scale, bindings and tempo, and are
\* that whole sequence once scheduling has finished: whenever the ticks and
\* passes fire and whatever the clock at play, two such runs request the same.
C4_SchedulingDeterministic ==
  run.clean =>
    /\ Len(RunRequests) <= Len(ExpectedSchedule)
    /\ RunRequests = SubSeq(ExpectedSchedule, 1, Len(RunRequests))
    /\ schedulingFinished => RunRequests = ExpectedSchedule

\* C4 witness: a run started late (clock 150 at play) whose scheduling took
\* several ticks at later clocks has issued the whole sequence of four requests
C4_Witness ==
  /\ run.clean
  /\ run.anchor = 2 * ClockStep + SchedLatency
  /\ clock > run.anchor
  /\ schedulingFinished
  /\ Len(RunRequests) >= 3
  /\ RunRequests = ExpectedSchedule

\* the event seek() queues for its target line
SeekEvent == Event("line", 0, seekLocals.lineIndex, -1, FALSE)

\* C5: seek(n) on a valid line while Playing: once seek has queued its event
\* and before anything is scheduled, the player is paused at cursor (n, 0) and
\* the queue holds exactly the immediate highlight of line n; when seek resumes
\* playback the player is Playing at cursor (n, 0) with that event delivered,
\* the queue empty and next-scheduled-time = audio clock + 50 ms.
C5_SeekWhilePlaying ==
  /\ (pc = "seek_draw" /\ seekLocals.wasPlaying) =>
        /\ ~isPlaying
        /\ currentLineIdx = seekLocals.lineIndex /\ charIdx = 0
        /\ visualQueue = << SeekEvent >>
        /\ ~schedulingFinished
  /\ (pc = "seek_resume" /\ seekLocals.wasPlaying) =>
        /\ ~isPlaying
        /\ currentLineIdx = seekLocals.lineIndex /\ charIdx = 0
        /\ visualQueue = << >>
        /\ visualLog # << >> /\ visualLog[Len(visualLog)] = SeekEvent
  /\ (pc = "play_sched" /\ seekLocals.wasPlaying) =>
        /\ isPlaying
        /\ currentLineIdx = seekLocals.lineIndex /\ charIdx = 0
        /\ visualQueue = << >>
        /\ nextNoteTime = clock + SchedLatency

\* C5 witness: seek(2) during playback, after notes were dispatched and the
\* clock moved on, is about to resume
C5_Witness ==
  /\ pc = "play_sched"
  /\ seekLocals.wasPlaying
  /\ seekLocals.lineIndex = 2
  /\ clock > 0
  /\ audioLog # << >>
  /\ nextNoteTime = clock + SchedLatency

\* C6: the pending visual-event queue is ordered by non-decreasing timestamp
\* at every reachable state.
C6_QueueSorted ==
  \A i \in 1..(Len(visualQueue) - 1) : visualQueue[i].time <= visualQueue[i + 1].time

\* C7: the start times of the audio requests are non-decreasing in dispatch
\* order, over ticks interleaved with pause, play, seek and setTempo (the song
\* was loaded once and neither stop() nor the end of the song came since).
C7_AudioMonotone ==
  onStopCount <= 1 =>
    \A i \in 1..(Len(audioLog) - 1) : audioLog[i].time <= audioLog[i + 1].time

\* a callback of a timer or of an animation frame runs
CallbackRuns == TimerFires \/ OrphanTimerFires \/ FrameFires \/ OrphanFrameFires

\* C8: while the player is not Playing and no control call is in progress, a
\* callback that runs dispatches no audio, queues and delivers no visual event,
\* does not move the cursor and arms no further callback.
C8_CallbacksInert ==
  [][(~isPlaying /\ pc = "idle" /\ CallbackRuns) =>
       /\ UNCHANGED << audioLog, visualLog, visualQueue, currentLineIdx, charIdx >>
       /\ ~timers'.held /\ ~frames'.held]_vars

\* pause() is called, directly or by togglePlay() while Playing
PauseCalled == Pause \/ (TogglePlay /\ isPlaying)

\* C9: pause() leaves the cursor, the visual-event queue, next-scheduled-time
\* and the scheduling-finished flag (and what was sent to the sinks) unchanged;
\* it clears the Playing flag and cancels the pending callbacks it holds.
C9_PauseFrame ==
  [][PauseCalled =>
       /\ UNCHANGED << currentLineIdx, charIdx, visualQueue, nextNoteTime,
                       schedulingFinished, audioLog, visualLog, onStopCount >>
       /\ ~isPlaying' /\ ~timers'.held /\ ~frames'.held]_vars

\* C9 witness: paused in mid-song with events still queued
C9_Witness ==
  /\ pc = "idle"
  /\ ~isPlaying
  /\ Len(visualQueue) >= 2
  /\ currentLineIdx > 0
  /\ nextNoteTime > clock

\* C10: every call of stop() (by the caller, by load() or at the end-of-song
\* marker) leaves the player not Playing, at cursor (0,0), with an empty visual
\* queue and scheduling-finished false, and notifies the stop sink once.
C10_StopResets ==
  [][(Stop \/ onStopCount' # onStopCount) =>
       /\ ~isPlaying'
       /\ currentLineIdx' = 0 /\ charIdx' = 0
       /\ visualQueue' = << >>
       /\ ~schedulingFinished'
       /\ ~timers'.held /\ ~frames'.held
       /\ onStopCount' = onStopCount + 1]_vars

\* C10 witness: stopped after load() and a later stop, audio having been played
C10_Witness ==
  /\ pc = "idle"
  /\ onStopCount >= 2
  /\ audioLog # << >>
  /\ clock > 0
  /\ Stopped
  /\ songData # "null"

\* the events of q from 1-based position k + 1 on
QueueFrom(q, k) == SubSeq(q, k + 1, Len(q))

\* s is a prefix of t
IsPrefix(s, t) == Len(s) <= Len(t) /\ s = SubSeq(t, 1, Len(s))

\* C11 as claimed: in every step the events delivered are the front of the
\* queue, in order, and every other queued event stays queued: what is
\* delivered is what was enqueued, nothing dropped, nothing delivered twice
\* (over play, pause, seek, stop and the callbacks; load() is left aside).
C11_NothingDropped ==
  [][(\E song \in Songs : Load(song)) \/
     \E k \in 0..Len(visualQueue) :
       /\ visualLog' = visualLog \o SubSeq(visualQueue, 1, k)
       /\ IsPrefix(QueueFrom(visualQueue, k), visualQueue')]_vars

\* C11 as amended: in every step the events delivered are the front of the
\* queue, in enqueue order, each leaving the queue as it is delivered (so none is
\* delivered twice); the events behind them stay queued in order, except that
\* stop() (called directly, by load() or on draining the end-of-song marker,
\* which is consumed and not delivered) and seek() discard every event still
\* queued, seek() then queueing its own highlight event.
C11_DeliveredInOrder ==
  [][\E k \in 0..Len(visualQueue) :
       /\ visualLog' = visualLog \o SubSeq(visualQueue, 1, k)
       /\ \/ IsPrefix(QueueFrom(visualQueue, k), visualQueue')
          \/ /\ onStopCount' = onStopCount + 1
             /\ visualQueue' = << >>
          \/ /\ k = 0
             /\ pc' = "seek_draw"
             /\ visualQueue' = << Event("line", 0, currentLineIdx', -1, FALSE) >>]_vars

\* C11 witness: after a stop fewer note flashes were delivered than audio
\* requests were made (each request queues one flash): some were delivered,
\* the rest discarded
C11_Witness ==
  /\ pc = "idle"
  /\ Stopped
  /\ onStopCount = 2
  /\ Len(SelectSeq(visualLog, LAMBDA e : e.kind = "flash")) >= 1
  /\ Len(SelectSeq(visualLog, LAMBDA e : e.kind = "flash")) < Len(audioLog)

\* a reconciliation pass runs: draw() called by a frame callback, play() or seek()
DrawRuns == FrameFires \/ OrphanFrameFires \/ PlayDraw \/ SeekDraw

\* C12: a reconciliation pass that drains the end-of-song marker leaves the
\* player Stopped (not Playing, cursor (0,0), queue empty, scheduling not
\* finished) with the stop sink notified once, holds no timer or frame callback
\* and arms none, and the marker is not among the events delivered.
C12_MarkerStops ==
  [][(DrawRuns /\ onStopCount' # onStopCount) =>
       /\ \E k \in 1..Len(visualQueue) :
            /\ visualQueue[k].kind = "stop"
            /\ visualLog' = visualLog \o SubSeq(visualQueue, 1, k - 1)
       /\ \A i \in 1..Len(visualLog') : visualLog'[i].kind # "stop"
       /\ ~isPlaying'
       /\ currentLineIdx' = 0 /\ charIdx' = 0
       /\ visualQueue' = << >>
       /\ ~schedulingFinished'
       /\ onStopCount' = onStopCount + 1
       /\ ~timers'.held /\ ~frames'.held
       /\ timers'.orphans <= timers.orphans /\ frames'.orphans <= frames.orphans]_vars

\* C12 witness: a run played from Stopped to its end, stopped by the marker
\* (no control call was made since play)
C12_Witness ==
  /\ pc = "idle"
  /\ run.clean
  /\ ~isPlaying
  /\ Stopped
  /\ onStopCount = 2
  /\ RunRequests = ExpectedSchedule
  /\ Len(visualLog) > 0

\* scheduler() runs: called by a timer callback or by play()
SchedulerRuns == TimerFires \/ OrphanTimerFires \/ PlayScheduler

\* the events a step appends to the visual queue
Appended == SubSeq(visualQueue', Len(visualQueue) + 1, Len(visualQueue'))

\* the audio requests a step makes
Requested == SubSeq(audioLog', Len(audioLog) + 1, Len(audioLog'))

\* d ms are n beats of 60 / BPM / tempo factor seconds (times are in whole ms)
IsBeats(d, n) == d * baseBPM * tempoScale = n * 60000 * 100

\* C13: a run of scheduler() that schedules n tokens from next-scheduled-time
\* t0 gives them the start times t0, t0 + spb, ..., t0 + (n-1) * spb and leaves
\* next-scheduled-time at t0 + n * spb, with spb = 60 / BPM / tempo factor; in a
\* song of single-note tokens the audio requests carry exactly these times. As
\* this holds for every run of scheduler(), the times do not depend on how the
\* tokens are spread over the ticks.
C13_BeatPerToken ==
  [][SchedulerRuns =>
       LET tokens == SelectSeq(Appended, LAMBDA e : e.kind = "line")
       IN  /\ Len(visualQueue') >= Len(visualQueue)
           /\ IsBeats(nextNoteTime' - nextNoteTime, Len(tokens))
           /\ \A j \in 1..Len(tokens) : IsBeats(tokens[j].time - nextNoteTime, j - 1)
           /\ songData = "notes" =>
                [j \in 1..Len(Requested) |-> Requested[j].time]
                  = [j \in 1..Len(tokens) |-> tokens[j].time]]_vars

\* C13 witness: three single-note tokens at 500 BPM, factor 1.0, scheduled over
\* several ticks, were requested 0, 120 and 240 ms after the anchor
C13_Witness ==
  /\ run.clean
  /\ songData = "notes"
  /\ tempoScale = 100
  /\ clock >= 2 * ClockStep
  /\ Len(RunRequests) = 3
  /\ RunRequests[1].time = 0
  /\ RunRequests[2].time = 120
  /\ RunRequests[3].time = 240

(***************************************************************************)
(* Claims about the tokenizer and the scheduling of a line (SpecLine)      *)
(***************************************************************************)
\* the characters of a line that are not spaces, in order
NonSpaces(line) == SelectSeq(line, LAMBDA c : c # " ")

\* a line that is blank, exactly "~" after trimming, or whose trimmed content
\* starts with "-"
IsSkipLine(line) ==
  \/ NonSpaces(line) = << >>
  \/ NonSpaces(line) = << "~" >> /\ Len(trimEnd(trimStart(line))) = 1
  \/ NonSpaces(line) # << >> /\ Head(NonSpaces(line)) = "-"

\* the line under the cursor
CursorLine == rawLines[currentLineIdx + 1]

\* C14: scheduling a line that is blank, "~" after trimming, or a comment
\* dispatches no audio, appends exactly one skip event tagged with the line
\* index at the current next-scheduled-time, leaves next-scheduled-time as it
\* is and moves the cursor to (line + 1, 0); no token is made of the line.
C14_SkipLine ==
  [][(ScheduleNextToken /\ currentLineIdx < Len(rawLines) /\ IsSkipLine(CursorLine)) =>
       /\ audioLog' = audioLog
       /\ visualQueue' = Append(visualQueue,
                                Event("skip", nextNoteTime, currentLineIdx, -1, FALSE))
       /\ nextNoteTime' = nextNoteTime
       /\ currentLineIdx' = currentLineIdx + 1
       /\ charIdx' = 0
       /\ ~schedulingFinished']_vars

\* C14 witness: the comment line " -a", a note character in it, was scheduled
\* as one skip event and nothing else
C14_Witness ==
  /\ rawLines = << << " ", "-", "a" >> >>
  /\ currentLineIdx = 1
  /\ charIdx = 0
  /\ audioLog = << >>
  /\ nextNoteTime = SchedLatency
  /\ visualQueue = << Event("skip", SchedLatency, 0, -1, FALSE) >>

(***************************************************************************)
(* Claims about the control calls (specification Spec)                     *)
(***************************************************************************)
\* the fields of the player other than the tempo factor, and what its sinks got
PlayerButTempo ==
  << isPlaying, nextNoteTime, currentLineIdx, charIdx, schedulingFinished,
     visualQueue, timers, frames, audioLog, visualLog, onStopCount, songData,
     rawLines, baseBPM, pc >>

\* C15: setTempo(percent) sets the tempo factor to percent / 100 and changes
\* nothing else: cursor, next-scheduled-time, visual queue, Playing flag and the
\* audio requests already made stay as they are; a later run of scheduler()
\* advances next-scheduled-time by beats of the factor then current.
C15_SetTempoFrame ==
  [][/\ (\E percent \in TempoPercents : SetTempo(percent)) =>
          /\ UNCHANGED PlayerButTempo
          /\ tempoScale' \in TempoPercents
     /\ \/ /\ IsPrefix(audioLog, audioLog')
           /\ IsBeats(nextNoteTime' - nextNoteTime,
                      Len(SelectSeq(Appended, LAMBDA e : e.kind = "line")))
        \/ ~SchedulerRuns]_vars

\* C15 witness: the tempo was doubled after the first tick; the second note was
\* requested a beat of 120 ms after the first, as committed, and the third a
\* beat of 60 ms after the second
C15_Witness ==
  /\ songData = "notes"
  /\ tempoScale = 200
  /\ isPlaying
  /\ Len(audioLog) = 3
  /\ audioLog[2].time - audioLog[1].time = 120
  /\ audioLog[3].time - audioLog[2].time = 60

\* C16: seek with line index < 0 or >= the line count, or with no song loaded,
\* changes nothing: cursor, visual queue, Playing flag, next-scheduled-time,
\* scheduling-finished flag, pending callbacks and what the sinks got are as
\* before, and seek is not left in progress.
C16_InvalidSeekNoOp ==
  [][(\E lineIndex \in -1..3 :
        /\ Seek(lineIndex)
        /\ (songData = "null" \/ lineIndex < 0 \/ lineIndex >= Len(rawLines))) =>
       /\ UNCHANGED PlayerButTempo
       /\ UNCHANGED << tempoScale, seekLocals >>]_vars

\* C16 witness: seek returned at its guard during playback, which goes on with
\* its callbacks pending and its events queued
C16_Witness ==
  /\ call.op = "seek"
  /\ pc = "idle"
  /\ isPlaying
  /\ timers.held /\ frames.held
  /\ visualQueue # << >>
  /\ audioLog # << >>

\* C17: play() and togglePlay() with no song loaded change nothing: the player
\* is not Playing, no timer or frame callback is armed, no audio request is
\* made, no visual event is queued, and play() is not left in progress.
C17_PlayWithoutSong ==
  [][((Play \/ TogglePlay) /\ songData = "null") =>
       /\ UNCHANGED PlayerButTempo
       /\ ~isPlaying'
       /\ ~timers'.held /\ ~frames'.held
       /\ audioLog' = << >> /\ visualQueue' = << >>
       /\ pc' = "idle"]_vars

\* C17 witness: play() returned at its guard, no song being loaded, and time
\* went on with nothing armed
C17_Witness ==
  /\ call.op = "play"
  /\ songData = "null"
  /\ clock > 0
  /\ ~isPlaying
  /\ ~timers.held /\ ~frames.held
  /\ audioLog = << >> /\ visualQueue = << >>

(***************************************************************************)
(* Claims about the reconciliation pass (specification Spec)               *)
(***************************************************************************)
\* C18: a reconciliation pass that leaves the player Playing has delivered
\* every event that is due: no event with a timestamp <= the audio clock read
\* by the pass remains anywhere in the queue.
C18_AllDueDelivered ==
  [][((FrameFires \/ OrphanFrameFires \/ PlayDraw) /\ isPlaying') =>
       \A i \in 1..Len(visualQueue') : visualQueue'[i].time > clock]_vars

(***************************************************************************)
(* Claims about the tokenizer (specification SpecLine)                     *)
(***************************************************************************)
\* getNextToken was applied to the line call.text at 0-based call.index
TokenTaken == call.op = "getNextToken"

\* the character of the line the tokenizer was applied at
TokenChar == call.text[call.index + 1]

\* the 0-based positions after call.index that hold the character c
LaterPositions(c) ==
  { j \in (call.index + 1)..(Len(call.text) - 1) : call.text[j + 1] = c }

\* the least number of a non-empty set of numbers
Least(S) == CHOOSE j \in S : \A k \in S : j <= k

\* the token of a bracket closed at the first later position holding close
ClosedToken(close, grace) ==
  LET end == Least(LaterPositions(close))
  IN  /\ ret.text = SubSeq(call.text, call.index + 2, end)
      /\ ret.nextIndex = end + 1
      /\ ret.isGrace = grace
      /\ ~ret.isRest

\* C19: at a position holding "[" with a later "]" the token is one chord of
\* the characters between the "[" and the first following "]", nextIndex just
\* past that "]"; "{" ... "}" likewise gives one grace run; "." gives a rest of
\* one character; any other character but a space gives a single note of that
\* character with nextIndex = index + 1.
C19_Tokenizer ==
  TokenTaken =>
    /\ (TokenChar = "[" /\ LaterPositions("]") # {}) => ClosedToken("]", FALSE)
    /\ (TokenChar = "{" /\ LaterPositions("}") # {}) => ClosedToken("}", TRUE)
    /\ TokenChar = "." =>
         /\ ret.text = << "." >> /\ ret.nextIndex = call.index + 1
         /\ ret.isRest /\ ~ret.isGrace
    /\ TokenChar \notin { "[", "{", ".", " " } =>
         /\ ret.text = << TokenChar >> /\ ret.nextIndex = call.index + 1
         /\ ~ret.isRest /\ ~ret.isGrace

\* C19 witness: in "a[ceg]" the token at position 1 is the chord "ceg", ending
\* past position 5
C19_Witness ==
  /\ TokenTaken
  /\ call.text = << "a", "[", "c", "e", "g", "]" >>
  /\ call.index = 1
  /\ ret.text = << "c", "e", "g" >>
  /\ ret.nextIndex = 6
  /\ ~ret.isGrace /\ ~ret.isRest

\* the number of tokens of a line from 0-based position i on, spaces making
\* none: a closed bracket with its content is one token, any other character
\* but a space is one token
RECURSIVE TokenCount(_, _)
TokenCount(line, i) ==
  IF i >= Len(line) THEN 0
  ELSE LET c      == line[i + 1]
           close  == IF c = "[" THEN "]" ELSE "}"
           closes == { j \in (i + 1)..(Len(line) - 1) : line[j + 1] = close }
       IN  IF c = " " THEN TokenCount(line, i + 1)
           ELSE IF c \in { "[", "{" } /\ closes # {}
           THEN 1 + TokenCount(line, Least(closes) + 1)
           ELSE 1 + TokenCount(line, i + 1)

\* the line of the song has been scheduled to its end
LineDone == currentLineIdx = 1 /\ ~IsSkipLine(rawLines[1])

\* C20: once a content line is scheduled, wherever its spaces are, the beats
\* by which next-scheduled-time has advanced and the highlight events queued
\* for the line both equal the number of non-space tokens of the line.
C20_SpacesCostNothing ==
  LineDone =>
    /\ IsBeats(nextNoteTime - SchedLatency, TokenCount(rawLines[1], 0))
    /\ Len(SelectSeq(visualQueue, LAMBDA e : e.kind = "line"))
         = TokenCount(rawLines[1], 0)

\* the character under the cursor, the cursor being inside a content line
CursorChar == CursorLine[charIdx + 1]

\* scheduleNextToken() takes a token of the line under the cursor
TokenScheduled ==
  /\ ScheduleNextToken
  /\ currentLineIdx < Len(rawLines)
  /\ ~IsSkipLine(CursorLine)
  /\ charIdx < Len(CursorLine)

\* the 0-based positions of the line l after position i that hold the character c
PositionsAfter(l, i, c) == { j \in (i + 1)..(Len(l) - 1) : l[j + 1] = c }

\* position i of the line l holds a "[" or a "{" that nothing closes later
IsUnclosed(l, i) ==
  \/ l[i + 1] = "[" /\ PositionsAfter(l, i, "]") = {}
  \/ l[i + 1] = "{" /\ PositionsAfter(l, i, "}") = {}

\* the highlight event of a token of the line under the cursor
LineEvent(isRest) == Event("line", nextNoteTime, currentLineIdx, -1, isRest)

\* C21: a "[" or "{" that nothing closes later on the line gives a token of
\* empty content that takes the opening character alone (nextIndex = index + 1);
\* scheduling it makes no audio request and no flash, the cursor moves to the
\* next character of the same line and scheduling is not finished.
C21_UnclosedOpener ==
  [][/\ (\E i \in 0..(5 * MaxLineFrags) : CallGetNextToken(i) /\ IsUnclosed(rawLines[1], i)) =>
          /\ ret'.text = << >>
          /\ ret'.nextIndex = call'.index + 1
          /\ ~ret'.isRest /\ ~ret'.isGrace
     /\ (TokenScheduled /\ IsUnclosed(CursorLine, charIdx)) =>
          /\ audioLog' = audioLog
          /\ Appended = << LineEvent(FALSE) >>
          /\ currentLineIdx' = currentLineIdx
          /\ charIdx' = charIdx + 1
          /\ ~schedulingFinished']_vars

\* C21 witness: in "[a" the "[" was scheduled as a silent token and the "a"
\* after it as a note
C21_Witness ==
  /\ rawLines = << << "[", "a" >> >>
  /\ currentLineIdx = 0
  /\ charIdx = 2
  /\ Len(audioLog) = 1
  /\ Len(visualQueue) = 3
  /\ visualQueue[1] = Event("line", SchedLatency, 0, -1, FALSE)
  /\ visualQueue[2].kind = "flash"

(***************************************************************************)
(* C22 .. C25: the pitch mapper (specification SpecLogic)                  *)
(***************************************************************************)
\* the key a shift symbol or an upper-case letter is the shifted form of
BaseOf(c) == IF c \in DOMAIN shiftMap THEN shiftMap[c] ELSE toLowerCase(c)

\* the character is a shift symbol of the table or an upper-case letter
IsShiftedForm(c) == c \in DOMAIN shiftMap \/ IsUpper(c)

\* C22: getMidi of a shift symbol or of an upper-case letter with the shift
\* flag false returns what getMidi of its base character returns with the
\* shift flag true.
C22_ShiftedFormIsShifted ==
  (call.op = "getMidi" /\ ~call.shift /\ IsShiftedForm(call.key)) =>
    ret.midi = getMidi(BaseOf(call.key), TRUE, customBindings, currentScale)

\* the key the binding table is looked up with for the typed character
LookupKey ==
  IF call.key \in DOMAIN specialShiftToBase THEN specialShiftToBase[call.key]
  ELSE call.key

\* the shift state a binding is looked up in: shift held, or the typed
\* character is itself a shifted symbol
ActiveShift == call.shift \/ call.key \in DOMAIN specialShiftToBase

\* the replacement the binding table holds for the call, "" if it holds none
Replacement ==
  IF LookupKey \notin DOMAIN customBindings THEN ""
  ELSE IF ActiveShift THEN customBindings[LookupKey].shift
       ELSE customBindings[LookupKey].norm

\* the pitch of the key k of the keyboard table in the current scale, shifted
\* or not; no pitch for any other character
ScalePitchOf(k, shifted) ==
  IF k \notin KeyboardKeys THEN null
  ELSE IF NoteNameOf(k) \in scales[currentScale].notes
       THEN IF shifted THEN NaturalPitchOf(k)
            ELSE IF scales[currentScale].sharps THEN NaturalPitchOf(k) + 1
            ELSE NaturalPitchOf(k) - 1
       ELSE IF shifted THEN NaturalPitchOf(k) + 1 ELSE NaturalPitchOf(k)

\* C23: with a non-empty replacement bound to the looked-up key in the active
\* shift state, getMidi returns the pitch of the replacement's base key,
\* shifted exactly when the replacement is upper case or a shift symbol; with
\* no binding or an empty replacement it returns what it returns under the
\* empty binding table.
C23_Bindings ==
  call.op = "getMidi" =>
    ret.midi = IF Replacement # ""
               THEN ScalePitchOf(BaseOf(Replacement), IsShiftedForm(Replacement))
               ELSE getMidi(call.key, call.shift, NoBindings, currentScale)

\* C23 witness: "'" is bound to "E" unshifted and to "r" shifted; pressed with
\* shift in C Major it gives the unshifted pitch of "r", 35
C23_Witness ==
  /\ call.op = "getMidi"
  /\ call.key = "'"
  /\ call.shift
  /\ currentScale = "C Major"
  /\ Replacement = "r"
  /\ ret.midi = 35

\* the replacement the binding table holds for a key and a shift flag
ReplacementFor(key, shift) ==
  LET lookup == IF key \in DOMAIN specialShiftToBase THEN specialShiftToBase[key]
                ELSE key
  IN  IF lookup \notin DOMAIN customBindings THEN ""
      ELSE IF shift \/ key \in DOMAIN specialShiftToBase
           THEN customBindings[lookup].shift
           ELSE customBindings[lookup].norm

\* the base character the character c of a song is resolved through: that of
\* its replacement if a non-empty one is bound, else its own
ResolvedBaseOf(c) ==
  LET r == ReplacementFor(BaseOf(c), IsShiftedForm(c))
  IN  IF r # "" THEN BaseOf(r) ELSE BaseOf(c)

\* scheduleNextToken() takes a token that is one plain character of the line
CharScheduled == TokenScheduled /\ CursorChar \notin { "[", "{", ".", " " }

\* the character scheduled is resolved exactly if its base character is in the
\* keyboard table; resolved, it gets one audio request and one flash; not
\* resolved, it gets neither but is a token: one highlight event, one beat
ResolvedExactlyInTable ==
  CharScheduled =>
    /\ Len(Requested) = (IF ResolvedBaseOf(CursorChar) \in KeyboardKeys THEN 1 ELSE 0)
    /\ ResolvedBaseOf(CursorChar) \in KeyboardKeys =>
         /\ Appended = << Event("flash", nextNoteTime, -1, Requested[1].midi, FALSE),
                          LineEvent(FALSE) >>
         /\ Requested[1].midi # null
    /\ ResolvedBaseOf(CursorChar) \notin KeyboardKeys =>
         /\ SoundOfChar(CursorChar) = null
         /\ Appended = << LineEvent(FALSE) >>
    /\ currentLineIdx' = currentLineIdx
    /\ charIdx' = charIdx + 1
    /\ IsBeats(nextNoteTime' - nextNoteTime, 1)

\* the positions the keys of the keyboard table have
TablePositions == { PositionOf(k) : k \in KeyboardKeys }

\* every character of the keyboard table is found at its own place
TableInOrder == \A i \in 1..Len(keyMap) : PositionOf(keyMap[i]) = i - 1

\* the keyboard table gives the positions 0 .. n - 1, one per character
TableOf(n) ==
  /\ Len(keyMap) = n
  /\ TablePositions = 0..(n - 1)
  /\ TableInOrder

\* C24: resolution succeeds exactly for the base characters of the keyboard
\* table, which has 36 characters at the positions 0 .. 35; any other character
\* gives null, and the scheduler then makes no audio request and no flash for
\* it while it still takes it as a token.
C24_Table36 == [][TableOf(36) /\ ResolvedExactlyInTable]_vars

\* C24 as stated: the same with a keyboard table of 37 characters at the
\* positions 0 .. 36.
C24_Table37 == [][TableOf(37) /\ ResolvedExactlyInTable]_vars

\* C24 witness: in "a~" under no bindings the "a" was requested and flashed and
\* the "~" after it, which is in no table, was taken as a silent token
C24_Witness ==
  /\ rawLines = << << "a", "~" >> >>
  /\ customBindings = NoBindings
  /\ currentLineIdx = 0
  /\ charIdx = 2
  /\ Len(audioLog) = 1
  /\ Len(visualQueue) = 3
  /\ visualQueue[3] = Event("line", SchedLatency + secondsPerBeat, 0, -1, FALSE)

\* the keys of the keyboard table that give the pitch m, unshifted or shifted
KeysGiving(m, shifted) ==
  { k \in KeyboardKeys : getMidi(k, shifted, customBindings, currentScale) = m }

\* text is the key text the inverse search is to give for the pitch m: an
\* unshifted key that gives m if there is one, else the shifted form of a key
\* that gives m shifted, else nothing
IsPreferredFor(m, text) ==
  IF KeysGiving(m, FALSE) # {}
  THEN \E k \in KeysGiving(m, FALSE) : text = << k >>
  ELSE IF KeysGiving(m, TRUE) # {}
  THEN /\ Len(text) = 1
       /\ IsShiftedForm(text[1])
       /\ BaseOf(text[1]) \in KeysGiving(m, TRUE)
  ELSE text = << >>

\* the note name token of middle C
MiddleC == << "<", "c", "4", ">" >>

\* C25: findKeyForMidi gives an unshifted key whenever an unshifted key of the
\* table gives the pitch, and a shifted key only when none does; notesToKeys
\* puts the same key in the place of a note name.
C25_UnshiftedPreferred ==
  /\ call.op = "findKeyForMidi" => IsPreferredFor(call.midi, ret.text)
  /\ (call.op = "notesToKeys" /\ call.text = MiddleC) => IsPreferredFor(60, ret.text)

\* C25 witness: in D Major, where C is altered, 60 is given by no unshifted
\* key and the search gives "K", the first key that gives it shifted
C25_Witness ==
  /\ call.op = "findKeyForMidi"
  /\ call.midi = 60
  /\ currentScale = "D Major"
  /\ KeysGiving(60, FALSE) = {}
  /\ ret.text = << "K" >>

(***************************************************************************)
(* C26, C27: the sample cache (specification SpecAudio)                    *)
(***************************************************************************)
\* the cache holds a sample for the pitch
Stored(midi) == mapHas(samples, midi)

\* the step leaves the cache with at most one entry for a pitch
OneEntryPerPitch ==
  \A midi \in EnginePitches : Cardinality({ e \in samples' : e.key = midi }) <= 1

\* the step removes no entry and changes the data of none
EntriesKept == \A e \in samples : e \in samples'

\* a load that completes for a pitch already stored leaves the cache as it is
RedundantCompletion ==
  \A midi \in EnginePitches, by \in { "play", "preload" } :
    (LoadCompletes(midi, by) /\ Stored(midi)) => samples' = samples

\* the step begins one load for the pitch, on behalf of play(), and starts no
\* source
PlayBeginsLoad(midi) ==
  /\ loads' = loads (+) SetToBag({ Load_(midi, "play") })
  /\ sources' = sources

FailedLoads == { warnings[i] : i \in 1..Len(warnings) }

\* C27: a failed load stores nothing and starts no source, it only warns; the
\* play() that begins a load starts no source; after a load play() began for a
\* pitch has failed, every play() of that pitch begins a new load as long as
\* no sample is stored, and starts a source once one is.
C27_FailureContained ==
  [][/\ \A midi \in EnginePitches, by \in { "play", "preload" } :
          LoadFails(midi, by) =>
            /\ samples' = samples
            /\ sources' = sources
            /\ warnings' = Append(warnings, Load_(midi, by))
     /\ \A midi \in EnginePitches, time \in PlayTimes :
          /\ (EnginePlay(midi, time) /\ loads' # loads) => sources' = sources
          /\ (EnginePlay(midi, time) /\ Load_(midi, "play") \in FailedLoads) =>
               IF Stored(midi)
               THEN /\ Len(sources') = Len(sources) + 1
                    /\ sources'[Len(sources')].midi = midi
               ELSE PlayBeginsLoad(midi)]_vars

\* C27 witness: the load of the first play(60) failed, that of the second
\* completed, and the third play(60) started the only source
C27_Witness ==
  /\ warnings = << Load_(60, "play") >>
  /\ requested = [i \in 1..3 |-> [op |-> "play", midi |-> 60]]
  /\ Stored(60)
  /\ sources = << [midi |-> 60, time |-> 200] >>

(***************************************************************************)
(* C28, C29: what a token dispatches (specification SpecLine)              *)
(***************************************************************************)
\* the token scheduleNextToken() takes at the cursor
CursorToken == getNextToken(CursorLine, charIdx)

\* the units of a token's content from the 1-based position p on: a "[" with
\* a "]" after it makes one unit of what is between them, any other character
\* is a unit of its own
RECURSIVE SpanUnitsFrom(_, _)
SpanUnitsFrom(text, p) ==
  IF p > Len(text) THEN << >>
  ELSE LET closers == { j \in (p + 1)..Len(text) : text[j] = "]" }
       IN  IF text[p] = "[" /\ closers # {}
           THEN << SubSeq(text, p + 1, Least(closers) - 1) >>
                \o SpanUnitsFrom(text, Least(closers) + 1)
           ELSE << << text[p] >> >> \o SpanUnitsFrom(text, p + 1)

\* the audio requests of a token that starts at t and lasts d: the units of a
\* grace run of k units d / k apart, those of a note or chord all at t, one
\* request for every character of a unit that resolves to a pitch
DispatchOf(token, t, d) ==
  LET units == SpanUnitsFrom(token.text, 1)
      k     == Len(units)
  IN  UnitsRequests(units, 1, t, IF token.isGrace /\ k > 0 THEN d \div k ELSE 0)

\* the flash events of a sequence of audio requests
FlashesOf(requests) ==
  [j \in 1..Len(requests) |->
     Event("flash", requests[j].time, -1, requests[j].midi, FALSE)]

\* C28: scheduling a token that is not a rest, starting at t and lasting d,
\* requests every unit of a note or chord at t and unit i of a grace run of k
\* units at t + i * (d / k), the characters of a bracketed unit at one time;
\* each character that resolves to a pitch gets exactly one audio request and
\* exactly one flash event, both with that pitch and that time.
C28_DispatchTiming ==
  [][(TokenScheduled /\ ~CursorToken.isRest) =>
       LET expected == DispatchOf(CursorToken, nextNoteTime, secondsPerBeat)
       IN  /\ Requested = expected
           /\ Appended = FlashesOf(expected) \o << LineEvent(FALSE) >>]_vars

\* C28 witness: the grace run "{a[ce]}" has two units at 500 BPM: "a" was
\* requested at the start, 50 ms, and "c" and "e" together 60 ms later
C28_Witness ==
  /\ rawLines = << << "{", "a", "[", "c", "e", "]", "}" >> >>
  /\ charIdx = 7
  /\ audioLog = << [midi |-> 47, time |-> 50], [midi |-> 65, time |-> 110],
                   [midi |-> 33, time |-> 110] >>
  /\ Len(visualQueue) = 4

\* C29: scheduling a rest makes no audio request and no flash; it queues one
\* highlight event for the current line at next-scheduled-time and moves
\* next-scheduled-time on by one beat, as a note does.
C29_Rest ==
  [][(TokenScheduled /\ CursorToken.isRest) =>
       /\ Requested = << >>
       /\ Appended = << LineEvent(TRUE) >>
       /\ IsBeats(nextNoteTime' - nextNoteTime, 1)
       /\ nextNoteTime' = nextNoteTime + secondsPerBeat
       /\ currentLineIdx' = currentLineIdx
       /\ charIdx' = CursorToken.nextIndex]_vars

\* C29 witness: in ".a" the rest took the beat from 50 ms on with its
\* highlight event alone, and the note after it was requested a beat later
C29_Witness ==
  /\ rawLines = << << ".", "a" >> >>
  /\ charIdx = 2
  /\ visualQueue[1] = Event("line", SchedLatency, 0, -1, TRUE)
  /\ Len(audioLog) = 1
  /\ audioLog[1].time = SchedLatency + secondsPerBeat

(***************************************************************************)
(* C30: requests made before a seek (specification Spec)                   *)
(***************************************************************************)
\* seek() was called while Playing and has set the cursor; none of its later
\* steps, and no tick of the scheduler, has run since
SeekPerformed == pc = "seek_draw" /\ seekLocals.wasPlaying

\* C30: once seek(n) has been performed while Playing, no audio request made
\* before it has a start time later than the audio clock's time of the seek.
C30_NoStaleRequests ==
  SeekPerformed => \A i \in 1..Len(audioLog) : audioLog[i].time <= clock

(***************************************************************************)
(* C31: when visual events are delivered (specification Spec)              *)
(***************************************************************************)
\* the events a step hands to the visual sink
Delivered == SubSeq(visualLog', Len(visualLog) + 1, Len(visualLog'))

\* C31: an event is handed to the visual sink only when its timestamp is <=
\* the audio clock, the one exception being the immediate highlight seek()
\* queues and delivers itself; over play, pause, seek, stop and the callbacks.
C31_NeverEarly ==
  [][\A i \in 1..Len(Delivered) :
       \/ Delivered[i].time <= clock
       \/ SeekDraw /\ Delivered = << SeekEvent >>]_vars

(***************************************************************************)
(* C32: the cursor during scheduling (specification SpecLine)              *)
(***************************************************************************)
\* the step moves the cursor (line index, character index) strictly forward
\* in lexicographic order
CursorAdvances ==
  \/ currentLineIdx' > currentLineIdx
  \/ currentLineIdx' = currentLineIdx /\ charIdx' > charIdx

\* the cursor after the step is within the song: at most one line past the
\* last line, and at most one character past the end of its line
CursorWithinSong ==
  /\ currentLineIdx' <= Len(rawLines)
  /\ currentLineIdx' < Len(rawLines) => charIdx' <= Len(rawLines[currentLineIdx' + 1]) + 1
  /\ currentLineIdx' = Len(rawLines) => charIdx' = 0

\* C32: every scheduleNextToken() made while scheduling is not finished
\* either moves the cursor strictly forward in lexicographic order, leaving
\* scheduling unfinished, or marks scheduling finished and leaves the cursor;
\* the cursor stays within the song, so the calls of a tick are finitely many
\* even over lines that take no time.
C32_CursorAdvances ==
  [][ScheduleNextToken =>
       /\ \/ CursorAdvances /\ ~schedulingFinished'
          \/ schedulingFinished' /\ UNCHANGED << currentLineIdx, charIdx >>
       /\ CursorWithinSong]_vars

\* C32 witness: the line "~" was passed at no cost of time, the cursor moving
\* to the next line, and the call after it marked scheduling finished
C32_Witness ==
  /\ rawLines = << << "~" >> >>
  /\ currentLineIdx = 1
  /\ charIdx = 0
  /\ nextNoteTime = SchedLatency
  /\ schedulingFinished
  /\ Len(visualQueue) = 2
  /\ visualQueue[1].kind = "skip"

(***************************************************************************)
(* C33, C34: the translator (specification SpecLogic)                      *)
(***************************************************************************)
\* every comment line of the text given is, at its place, a line of the text
\* returned
CommentLinesKept ==
  LET given    == splitLines(call.text)
      returned == splitLines(ret.text)
  IN  /\ Len(returned) = Len(given)
      /\ \A i \in 1..Len(given) : isCommentLine(given[i]) => returned[i] = given[i]

\* C33: every line whose trimmed content starts with "-" is the same in what
\* keysToNotes returns and in what notesToKeys returns as in the text given,
\* also when it holds text shaped like a note name token such as <c4>.
C33_CommentsVerbatim ==
  call.op \in { "keysToNotes", "notesToKeys" } => CommentLinesKept

\* the pitch scheduleNextToken() requests for the character c met as a token
\* of its own on a content line; the tokenizer's own characters are none
SchedulerPitchOf(c) ==
  IF c \in { "[", "{", ".", " " } THEN null ELSE SoundOfChar(c)

\* the note name token of a pitch: lower-case name and octave between < and >
NoteTokenOf(m) ==
  << "<" >> \o lowerAll(midiToName(m)) \o numberChars((m \div 12) - 1) \o << ">" >>

\* keysToNotes was applied to a content line of one character
OneCharTranslated ==
  /\ call.op = "keysToNotes"
  /\ Len(call.text) = 1
  /\ call.text[1] # "\n"
  /\ ~isCommentLine(call.text)

\* C34: a character the scheduler requests a pitch for is given by keysToNotes
\* as the note name token of that pitch, the shift symbols of the digits such
\* as "(" and ")" included, and a character keysToNotes returns unchanged has
\* no pitch in the scheduler.
C34_TranslatorAgrees ==
  OneCharTranslated =>
    LET c == call.text[1]
    IN  /\ SchedulerPitchOf(c) # null => ret.text = NoteTokenOf(SchedulerPitchOf(c))
        /\ ret.text = << c >> => SchedulerPitchOf(c) = null

(***************************************************************************)
(* C35: a playback comes to its end (specification SpecLive)               *)
(***************************************************************************)
\* play() has been called
PlayCalled == pc = "play_sched"

\* the playback is over: every request of the song was made, the end-of-song
\* marker was drained by stop() and the player is Stopped
PlaybackOver ==
  /\ pc = "idle"
  /\ Stopped
  /\ ~timers.held /\ ~frames.held
  /\ onStopCount = 2
  /\ run.clean
  /\ RunRequests = ExpectedSchedule

\* C35: with a song loaded and a positive tempo percentage, once play() is
\* called and no control call follows, the clock advancing and the timer and
\* frame callbacks running, every token is eventually requested, the
\* end-of-song marker is eventually drained and the player comes to Stopped.
C35_PlaybackEnds == PlayCalled ~> PlaybackOver

\* C35 witness: the song "notes" played at half tempo is over, its three notes
\* requested, the clock past the marker's time
C35_Witness ==
  /\ PlaybackOver
  /\ songData = "notes"
  /\ tempoScale = 50
  /\ Len(audioLog) = 3
  /\ clock >= audioLog[3].time + StopDelay

(***************************************************************************)
\* the pitches the audio sink was asked for, in the order of the requests
RequestedPitches == [i \in 1..Len(audioLog) |-> audioLog[i].midi]

\* the pitches of the song's playable tokens in sheet order
SheetPitches == [i \in 1..Len(ExpectedSchedule) |-> ExpectedSchedule[i].midi]

\* C36: under play(), pause() and togglePlay() in any interleaving with the
\* timer and frame callbacks, the pitches requested are the song's playable
\* tokens in sheet order, each once in every pass through the song: as many
\* whole passes as end-of-song markers were drained, then a part of the next
\* pass, which is whole once scheduling has finished.
C36_PauseResume ==
  LET sheet == SheetPitches
      n     == Len(sheet)
      k     == Len(audioLog) - (onStopCount - 1) * n
  IN  /\ \A i \in 1..Len(audioLog) :
           RequestedPitches[i] = sheet[((i - 1) % n) + 1]
      /\ k >= 0 /\ k <= n
      /\ schedulingFinished => k = n

\* C36 witness: the song "notes" was paused after its first note and resumed,
\* no play() having been called while Playing; all three notes are requested,
\* the second later after the first than the tempo alone makes it
C36_Witness ==
  /\ songData = "notes"
  /\ schedulingFinished
  /\ onStopCount = 1
  /\ timers.orphans = 0 /\ frames.orphans = 0
  /\ Len(audioLog) = 3
  /\ audioLog[2].time - audioLog[1].time
       > ExpectedSchedule[2].time - ExpectedSchedule[1].time

(***************************************************************************)
\* the setTimeout callbacks pending, whether or not the player holds their id
PendingTimers == (IF timers.held THEN 1 ELSE 0) + timers.orphans

\* the requestAnimationFrame callbacks pending
PendingFrames == (IF frames.held THEN 1 ELSE 0) + frames.orphans

\* C37: at every reachable state at most one scheduling timer and at most one
\* frame callback is pending, and each pending one is the one whose id the
\* player holds: none is pending under an id the player has overwritten, not
\* even after play() is called while the player is Playing.
C37_OnePending ==
  /\ PendingTimers <= 1
  /\ PendingFrames <= 1
  /\ timers.orphans = 0
  /\ frames.orphans = 0

(***************************************************************************)
\* a run of scheduler() under timely ticks
TickRuns == PlayScheduler \/ OrphanTimerFires \/ \E d \in TickWaits : TickThenWait(d)

\* C38: when the scheduling ticks of a Playing player are less than the
\* horizon apart in audio-clock time, every token a run of scheduler()
\* schedules starts no earlier than the audio clock reads at that run and
\* earlier than the clock plus the horizon, and no audio request it makes is
\* for a time in the past.
C38_Lookahead ==
  [][TickRuns =>
       /\ \A j \in 1..Len(Appended) :
            Appended[j].kind = "line" =>
              /\ Appended[j].time >= clock
              /\ Appended[j].time < clock + scheduleAheadTime
       /\ \A j \in 1..Len(Requested) : Requested[j].time >= clock]_vars

\* C38 witness: the song "notes" was paused after its first note, resumed
\* later and played on by timely ticks: its third note is requested for a time
\* the clock has not reached
C38_Witness ==
  /\ songData = "notes"
  /\ isPlaying
  /\ timers.orphans = 0
  /\ Len(audioLog) = 3
  /\ onStopCount = 1
  /\ audioLog[2].time - audioLog[1].time
       > ExpectedSchedule[2].time - ExpectedSchedule[1].time
  /\ audioLog[3].time >= clock
  /\ clock > SchedLatency

(***************************************************************************)
\* the round trip was applied to one character that the player requests a
\* pitch for, the binding table empty
KeyRoundTrip ==
  /\ RoundTripDone
  /\ customBindings = NoBindings
  /\ Len(call.text) = 1
  /\ SchedulerPitchOf(call.text[1]) # null

\* C39: with an empty binding table, in every scale, a character c that
\* resolves to a pitch comes back from notesToKeys(keysToNotes(c)) as one key
\* character that resolves, upper case and shift symbols read as shifted, to
\* the pitch of c.
C39_RoundTripPitch ==
  KeyRoundTrip =>
    /\ Len(ret.text) = 1
    /\ SchedulerPitchOf(ret.text[1]) = SchedulerPitchOf(call.text[1])

\* C39 witness: in C Major "F" (the key of an E, shifted) came back as "g",
\* the unshifted key of the same pitch
C39_Witness ==
  /\ KeyRoundTrip
  /\ currentScale = "C Major"
  /\ call.text = << "F" >>
  /\ ret.text = << "g" >>

(***************************************************************************)
\* getMidi was applied to a key of the keyboard table, shifted or not, the
\* binding table empty: the pitch the scheduler requests, and queues a flash
\* for, when it meets the key on a sheet
KeyPitchMapped ==
  /\ call.op = "getMidi"
  /\ customBindings = NoBindings
  /\ \E i \in 1..Len(keyMap) : keyMap[i] = call.key
  /\ ret.midi # null

\* C40: every pitch the mapper gives for a key of the keyboard table, shifted
\* or not, in any of the scales, passes the range check of AudioEngine.play:
\* it is not above the highest sample.
C40_PitchesAccepted == KeyPitchMapped => ret.midi <= TopSample

====
